---- MODULE Spec2Model ----
(***************************************************************************)
(* Model of the Orlando Experience RAG repository: the layer build         *)
(* scripts (04, 06, 08, 09), the retrieval entry points (03, 05, 11, the   *)
(* ContextFusionEngine), the /query endpoint, the chunker, the grounding    *)
(* scorer, the atomic-fact extractor (07) and validator (10), and the       *)
(* retrieval evaluation test.                                              *)
(*                                                                         *)
(* A text is kept run-length encoded (see below).  A persisted layer is a   *)
(* pair of files: the metadata file (a list of records) and the index file *)
(* (a list of vectors, IndexFlatL2).  Each file carries the number of the  *)
(* build run that wrote it (a ghost field, not read by the program).       *)
(***************************************************************************)
EXTENDS Integers, Sequences, FiniteSets, TLC

VARIABLES files, modelPresent, nBuilds, bld, qry, chk, atm, call

vars == <<files, modelPresent, nBuilds, bld, qry, chk, atm, call>>

\* ------------------------------------------------------------------ bounds
MaxBuilds == 2
MaxDocs == 2
MaxTopK == 3
MaxWords == 6
MaxChunkSize == 3
MaxPieces == 2
MaxContexts == 2
MaxSegments == 2

\* ------------------------------------------------------- program constants
PREVIEW_03 == 300
PREVIEW_05 == 250
PREVIEW_11 == 300
CHUNK_SIZE == 512
OVERLAP == 50
API_TOP_K == 3

\* -------------------------------------------------------------------- text
\* A text is kept run-length encoded: a sequence of runs <<c, n>>, n >= 1
\* copies of the character c, no two neighbouring runs of the same
\* character.  "aaab" is << <<"a", 3>>, <<"b", 1>> >>, "" is << >>.
Min(a, b) == IF a < b THEN a ELSE b

Rep(c, n) == IF n = 0 THEN <<>> ELSE << <<c, n>> >>

\* s + t
Concat(s, t) ==
    IF s = <<>> THEN t
    ELSE IF t = <<>> THEN s
    ELSE IF s[Len(s)][1] = t[1][1]
         THEN SubSeq(s, 1, Len(s) - 1) \o << <<t[1][1], s[Len(s)][2] + t[1][2]>> >> \o Tail(t)
         ELSE s \o t

\* len(s)
RECURSIVE StrLen(_)
StrLen(s) == IF s = <<>> THEN 0 ELSE s[1][2] + StrLen(Tail(s))

\* s[:n] of Python
RECURSIVE Prefix(_, _)
Prefix(s, n) ==
    IF s = <<>> \/ n <= 0 THEN <<>>
    ELSE IF s[1][2] >= n THEN << <<s[1][1], n>> >>
    ELSE <<s[1]>> \o Prefix(Tail(s), n - s[1][2])

Ellipsis == Rep(".", 3)

\* the characters str.split() and \s treat as blanks
Whitespace == {" ", "\n", "\t"}

\* str.split(): the maximal runs of non-whitespace characters, in order
IsBlank(s, i) == s[i][1] \in Whitespace

\* the runs at which a word starts
WordStarts(s) == {i \in 1..Len(s) : ~IsBlank(s, i) /\ (i = 1 \/ IsBlank(s, i - 1))}

\* the last run of the word that starts at run i
WordEnd(s, i) ==
    CHOOSE j \in i..Len(s) :
        /\ \A m \in i..j : ~IsBlank(s, m)
        /\ j = Len(s) \/ IsBlank(s, j + 1)

\* the run at which word k starts, st being the runs at which words start
NthStart(st, k) == CHOOSE i \in st : Cardinality({j \in st : j < i}) = k - 1

Words(s) ==
    LET st == WordStarts(s)
    IN  [k \in 1..Cardinality(st) |-> SubSeq(s, NthStart(st, k), WordEnd(s, NthStart(st, k)))]

\* " ".join(ws)
RECURSIVE Join(_)
Join(ws) ==
    IF ws = <<>> THEN <<>>
    ELSE IF Len(ws) = 1 THEN ws[1]
    ELSE Concat(Concat(ws[1], Rep(" ", 1)), Join(Tail(ws)))

\* range(0, n, step) as the sequence of its values
Range0(n, step) == [j \in 1..((n + step - 1) \div step) |-> (j - 1) * step]

\* the window words[i:i + chunk_size] (i is 0-based)
Window(words, i, chunk_size) == SubSeq(words, i + 1, Min(i + chunk_size, Len(words)))

\* a window that advances by chunk_size, ignoring the overlap
SplitStartsNoOverlap(n, chunk_size, overlap) == Range0(n, chunk_size)

\* range(0, len(words), step) with step = chunk_size - overlap
SplitStarts(n, chunk_size, overlap) == Range0(n, chunk_size - overlap)

simple_token_split(text, chunk_size, overlap) ==
    LET words == Words(text)
    IN  IF Len(words) <= chunk_size
        THEN <<text>>
        ELSE LET starts == SplitStarts(Len(words), chunk_size, overlap)
             IN  [j \in 1..Len(starts) |-> Join(Window(words, starts[j], chunk_size))]

\* text[:limit] + "..." if len(text) > limit else text   (03 line 54, 05 line 50)
Preview(text, limit) ==
    IF StrLen(text) > limit THEN Concat(Prefix(text, limit), Ellipsis) ELSE text

\* text[:limit] + ("..." if len(text) > limit else "")   (11 line 52)
Preview11(text, limit) ==
    Concat(Prefix(text, limit), IF StrLen(text) > limit THEN Ellipsis ELSE <<>>)

\* ------------------------------------------------------- embedding, search
CharCode(c) == CASE c = "a" -> 1 [] c = "b" -> 2 [] c = "c" -> 3 [] OTHER -> 0

\* model.encode of one text: a deterministic function of the text
Embed(text) == IF text = <<>> THEN 0 ELSE 4 * StrLen(text) + CharCode(text[1][1])

\* model.encode(texts): one vector per text, in order
Encode(texts) == [i \in 1..Len(texts) |-> Embed(texts[i])]

\* squared Euclidean distance
L2(u, v) == (u - v) * (u - v)

\* position of vector i in the ascending-distance order, ties in index order
RankOf(vecs, qv, i) ==
    Cardinality({j \in 1..Len(vecs) :
        \/ L2(vecs[j], qv) < L2(vecs[i], qv)
        \/ L2(vecs[j], qv) = L2(vecs[i], qv) /\ j < i})

\* index.search(query_vec, k): the k nearest ids (0-based), padded with -1
SearchIds(vecs, qv, k) ==
    [r \in 1..k |->
        IF r <= Len(vecs)
        THEN (CHOOSE i \in 1..Len(vecs) : RankOf(vecs, qv, i) = r - 1) - 1
        ELSE -1]

\* ------------------------------------------------------------ input pools
\* the sequences of at most n distinct elements of S
SeqsUpTo(S, n) ==
    UNION {{s \in [1..m -> S] : \A i, j \in 1..m : i # j => s[i] # s[j]} : m \in 0..n}

\* a text exactly at the 03 and 11 preview limit and one a character longer
TextPool == {Rep("b", PREVIEW_03), Rep("c", PREVIEW_03 + 1)}

\* a processed document (data/processed/<name>.jsonl)
Doc(content) == [file_name |-> "doc.pdf", content |-> content]

DocPool == {Doc(t) : t \in TextPool}

\* an atomic fact as 07_parse_core_atomic.py writes it (generic path)
Fact(t) ==
    [entity |-> "unknown", attribute |-> "generic_factual", value |-> t,
     source_document |-> "doc.pdf", year_or_season |-> "unknown", text |-> t]

FactPool == {Fact(t) : t \in TextPool}

Layers == {"core", "context", "strategy"}

AuxLayers == {"context", "strategy"}

LayerNames == Layers \cup {"bogus"}

\* ------------------------------------------------------------------ files
NoFile == [state |-> "missing", build |-> 0, recs |-> <<>>]

\* open(path, "w"): the file exists and is empty until the writer has written
Truncated(b) == [state |-> "ok", build |-> b, recs |-> <<>>]

\* faiss.write_index in progress: a file that read_index cannot parse
PartialFile(b) == [state |-> "partial", build |-> b, recs |-> <<>>]

Written(b, recs) == [state |-> "ok", build |-> b, recs |-> recs]

RECURSIVE Flatten(_)
Flatten(seqs) == IF seqs = <<>> THEN <<>> ELSE Head(seqs) \o Flatten(Tail(seqs))

Texts(recs) == [i \in 1..Len(recs) |-> recs[i].text]

\* 06 lines 56-66: the records of one document
CoreChunks(doc) ==
    LET chunks == simple_token_split(doc.content, CHUNK_SIZE, OVERLAP)
    IN  [i \in 1..Len(chunks) |->
            [file_name |-> doc.file_name, chunk_id |-> i - 1,
             text |-> chunks[i], char_count |-> StrLen(chunks[i])]]

\* 06 lines 56-66: the vectors of one document, zipped with its chunks
CoreEmbeddings(doc) == Encode(simple_token_split(doc.content, CHUNK_SIZE, OVERLAP))

\* 04 lines 65-75
AuxChunks(doc) ==
    LET chunks == simple_token_split(doc.content, CHUNK_SIZE, OVERLAP)
    IN  [i \in 1..Len(chunks) |->
            [source_file |-> doc.file_name, chunk_id |-> i - 1,
             text |-> chunks[i], char_count |-> StrLen(chunks[i])]]

AuxEmbeddings(doc) == Encode(simple_token_split(doc.content, CHUNK_SIZE, OVERLAP))

\* 09 lines 57-62
TravelRecords(chunks) ==
    [i \in 1..Len(chunks) |->
        [source_file |-> "ORLANDO_DEEPSEARCH_KB.pdf", chunk_id |-> i - 1,
         text |-> chunks[i]]]

\* 09 line 70
TravelEmbeddings(recs) == Encode(Texts(recs))

\* a build whose vectors are shifted by one position against the facts
AtomicEmbeddingsSkipFirst(facts) == Encode(Tail(Texts(facts) \o <<<<>>>>))

\* 08 lines 28-29
AtomicEmbeddings(facts) == Encode(Texts(facts))

IdleBuilder ==
    [pc |-> "idle", routine |-> "none", layer |-> "core", build |-> 0,
     chunks |-> <<>>, embeddings |-> <<>>]

StartedBuilder(routine, layer, chunks, embeddings) ==
    [pc |-> IF modelPresent \/ routine = "save_layer" THEN "open_meta" ELSE "failed",
     routine |-> routine, layer |-> layer, build |-> nBuilds + 1,
     chunks |-> chunks, embeddings |-> embeddings]

BuilderFree == bld.pc \in {"idle", "done", "failed"} /\ nBuilds < MaxBuilds

\* 06 rebuild_core_index, lines 49-66: load the documents, chunk and embed them
RebuildCoreIndexStart(docs) ==
    /\ BuilderFree
    /\ bld' = StartedBuilder("rebuild_core_index", "core",
                Flatten([d \in 1..Len(docs) |-> CoreChunks(docs[d])]),
                Flatten([d \in 1..Len(docs) |-> CoreEmbeddings(docs[d])]))
    /\ nBuilds' = nBuilds + 1
    /\ UNCHANGED <<files, modelPresent, qry, chk, atm, call>>

\* 08 rebuild_atomic_core, lines 25-29
RebuildAtomicCoreStart(facts) ==
    /\ BuilderFree
    /\ bld' = StartedBuilder("rebuild_atomic_core", "core", facts, AtomicEmbeddings(facts))
    /\ nBuilds' = nBuilds + 1
    /\ UNCHANGED <<files, modelPresent, qry, chk, atm, call>>

\* 04 embed_and_save_layer, lines 57-75, as main calls it (docs is not empty)
EmbedAndSaveLayerStart(docs, layer) ==
    /\ BuilderFree
    /\ docs # <<>>
    /\ bld' = StartedBuilder("embed_and_save_layer", layer,
                Flatten([d \in 1..Len(docs) |-> AuxChunks(docs[d])]),
                Flatten([d \in 1..Len(docs) |-> AuxEmbeddings(docs[d])]))
    /\ nBuilds' = nBuilds + 1
    /\ UNCHANGED <<files, modelPresent, qry, chk, atm, call>>

\* 09 save_layer, lines 52-53, as main calls it (chunks is not empty); the
\* embeddings are computed after the metadata file is written (line 70)
SaveLayerStart(chunks, layer) ==
    /\ BuilderFree
    /\ chunks # <<>>
    /\ bld' = StartedBuilder("save_layer", layer, TravelRecords(chunks), <<>>)
    /\ nBuilds' = nBuilds + 1
    /\ UNCHANGED <<files, modelPresent, qry, chk, atm, call>>

\* open(meta_path, "w") truncates the metadata file: 04 line 79, 06 line 69,
\* 08 line 32, 09 line 56
BuildOpenMeta ==
    /\ bld.pc = "open_meta"
    /\ files' = [files EXCEPT ![bld.layer].meta = Truncated(bld.build)]
    /\ bld' = [bld EXCEPT !.pc = "write_meta"]
    /\ UNCHANGED <<modelPresent, nBuilds, qry, chk, atm, call>>

\* the records are written and the file is closed: 04 lines 80-81, 06 lines
\* 70-71, 08 lines 33-34, 09 lines 57-62
BuildWriteMeta ==
    /\ bld.pc = "write_meta"
    /\ files' = [files EXCEPT ![bld.layer].meta = Written(bld.build, bld.chunks)]
    /\ bld' = [bld EXCEPT !.pc = "open_index"]
    /\ UNCHANGED <<modelPresent, nBuilds, qry, chk, atm, call>>

\* whether faiss.IndexFlatL2(embeddings.shape[1]) raises: an empty array has
\* no second dimension (IndexError), and 09 loads the model only here
IndexConstructionRaises(b, embeddings) ==
    \/ embeddings = <<>>
    \/ b.routine = "save_layer" /\ ~modelPresent

\* 09 line 70 for save_layer; the other routines embedded before writing
EmbeddingsAtIndexing(b) ==
    IF b.routine = "save_layer" /\ modelPresent
    THEN TravelEmbeddings(b.chunks)
    ELSE b.embeddings

\* index = faiss.IndexFlatL2(dim); index.add(embeddings), and faiss.write_index
\* opens the index file: 04 lines 84-87, 06 lines 74-76, 08 lines 40-42, 09
\* lines 69-75
BuildOpenIndex ==
    /\ bld.pc = "open_index"
    /\ LET embeddings == EmbeddingsAtIndexing(bld)
       IN  IF IndexConstructionRaises(bld, embeddings)
           THEN /\ bld' = [bld EXCEPT !.pc = "failed"]
                /\ UNCHANGED files
           ELSE /\ bld' = [bld EXCEPT !.pc = "write_index", !.embeddings = embeddings]
                /\ files' = [files EXCEPT ![bld.layer].index = PartialFile(bld.build)]
    /\ UNCHANGED <<modelPresent, nBuilds, qry, chk, atm, call>>

\* faiss.write_index returns: the index file holds the vectors
BuildWriteIndex ==
    /\ bld.pc = "write_index"
    /\ files' = [files EXCEPT ![bld.layer].index = Written(bld.build, bld.embeddings)]
    /\ bld' = [bld EXCEPT !.pc = "done"]
    /\ UNCHANGED <<modelPresent, nBuilds, qry, chk, atm, call>>

\* ---------------------------------------------------------------- queries
\* The program that reads the layer files: the 03 CLI, the 05 CLI, the 11
\* CLI, or the API server (src/api/main.py) with its ContextFusionEngine.
IdleQuery ==
    [pc |-> "idle", entry |-> "none", layer |-> "core", index |-> NoFile,
     meta |-> NoFile, engine |-> FALSE, q |-> <<>>, k |-> 0, ids |-> <<>>,
     results |-> <<>>, outcome |-> "none", retrieved |-> FALSE,
     generated |-> FALSE, fallback |-> FALSE, grounded |-> <<>>]

\* no program is running
QueryFree == qry.pc = "idle"

\* the CLI process has printed its results and exits; the server is stopped
QueryExit ==
    /\ qry.pc \in {"done", "serving"}
    /\ qry' = IdleQuery
    /\ UNCHANGED <<files, modelPresent, nBuilds, bld, chk, atm, call>>

\* 05 load_index_and_metadata, lines 17-27: the layer's files, or ValueError
KnownLayer05(layer) == layer \in {"core", "context", "strategy"}

\* 11 retrieve, lines 38-43: the layer whose metadata file is read
Layer11(layer) ==
    IF layer = "core" THEN "core"
    ELSE IF layer = "context" THEN "context"
    ELSE "strategy"

\* a program starts: 03 retrieve (line 34), 05 retrieve (line 37), or the API
\* module's import (main.py line 25); 03 and the engine read the core layer
QueryStart(entry, layer) ==
    /\ QueryFree
    /\ entry \in {"cli03", "layers05", "api"}
    /\ entry \in {"cli03", "api"} => layer = "core"
    /\ qry' = IF entry = "layers05" /\ ~KnownLayer05(layer)
              THEN [IdleQuery EXCEPT !.pc = "done", !.entry = entry,
                                     !.layer = layer, !.outcome = "ValueError"]
              ELSE [IdleQuery EXCEPT !.pc = "read_index", !.entry = entry,
                                     !.layer = layer]
    /\ UNCHANGED <<files, modelPresent, nBuilds, bld, chk, atm, call>>

\* how a load that raises ends: the CLI dies with the exception; main.py
\* lines 24-28 catch it, set fusion_engine = None and go on to serve
LoadFailed(qr, err) ==
    IF qr.entry = "api"
    THEN [qr EXCEPT !.pc = "serving", !.engine = FALSE, !.outcome = "none"]
    ELSE [qr EXCEPT !.pc = "done", !.outcome = err]

\* faiss.read_index(index_path): 03 line 24, 05 line 29, context_fusion line 17
QueryReadIndex ==
    /\ qry.pc = "read_index"
    /\ LET f == files[qry.layer].index
       IN  qry' = IF f.state = "ok"
                  THEN [qry EXCEPT !.pc = "read_meta", !.index = f]
                  ELSE LoadFailed(qry, "IndexReadError")
    /\ UNCHANGED <<files, modelPresent, nBuilds, bld, chk, atm, call>>

\* the state after the metadata file is read and the model is constructed:
\* no check relates the metadata to the index
Loaded(qr, f) ==
    IF f.state # "ok" THEN LoadFailed(qr, "FileNotFoundError")
    ELSE IF ~modelPresent THEN LoadFailed([qr EXCEPT !.meta = f], "ModelLoadError")
    ELSE [qr EXCEPT !.meta = f, !.engine = (qr.entry = "api"),
                    !.pc = IF qr.entry = "api" THEN "serving" ELSE "loaded"]

\* the metadata file is read line by line and SentenceTransformer(MODEL) is
\* constructed: 03 lines 25-29, 05 lines 30-38, context_fusion lines 20-26
QueryReadMeta ==
    /\ qry.pc = "read_meta"
    /\ qry' = Loaded(qry, files[qry.layer].meta)
    /\ UNCHANGED <<files, modelPresent, nBuilds, bld, chk, atm, call>>

HasKey(doc, key) == key \in DOMAIN doc

\* doc.get(key, default)
Get(doc, key, default) == IF HasKey(doc, key) THEN doc[key] ELSE default

\* the ids the loops visit: `if idx == -1: continue`
Hits(ids) == SelectSeq(ids, LAMBDA id : id # -1)

\* the exception one visited id raises, "ok" if none: metadata[idx] needs
\* idx < len(metadata), doc[key] needs the key
HitError(meta, id, keys) ==
    IF id >= Len(meta) THEN "IndexError"
    ELSE IF \E key \in keys : ~HasKey(meta[id + 1], key) THEN "KeyError"
    ELSE "ok"

\* the first exception of the loop over the hits, "ok" if it completes
LoopOutcome(meta, hits, keys) ==
    IF \A j \in 1..Len(hits) : HitError(meta, hits[j], keys) = "ok" THEN "ok"
    ELSE LET j == CHOOSE j \in 1..Len(hits) :
                    /\ HitError(meta, hits[j], keys) # "ok"
                    /\ \A i \in 1..(j - 1) : HitError(meta, hits[i], keys) = "ok"
         IN  HitError(meta, hits[j], keys)

Keys03 == {"file_name", "chunk_id", "text"}

\* 03 retrieve, lines 45-58 (retrieval_time_sec is left out)
Results03(meta, vecs, qv, ids) ==
    LET pos == SelectSeq([r \in 1..Len(ids) |-> r], LAMBDA r : ids[r] # -1)
    IN  [j \in 1..Len(pos) |->
            LET doc == meta[ids[pos[j]] + 1]
            IN  [rank |-> pos[j], file_name |-> doc.file_name,
                 chunk_id |-> doc.chunk_id,
                 text |-> Preview(doc.text, PREVIEW_03),
                 score |-> L2(vecs[ids[pos[j]] + 1], qv)]]

Keys05 == {"text"}

\* 05 retrieve, lines 42-53
Results05(layer, meta, vecs, qv, ids) ==
    LET hits == Hits(ids)
    IN  [j \in 1..Len(hits) |->
            LET doc == meta[hits[j] + 1]
            IN  [layer |-> layer,
                 source |-> Get(doc, "file_name", Get(doc, "source_file", "None")),
                 text_preview |-> Preview(doc.text, PREVIEW_05),
                 score |-> L2(vecs[hits[j] + 1], qv)]]

\* an engine that returns the display preview instead of the text
FusionResultsPreview(meta, ids) ==
    LET hits == Hits(ids)
    IN  [j \in 1..Len(hits) |-> Preview(Get(meta[hits[j] + 1], "text", <<>>), PREVIEW_03)]

\* ContextFusionEngine.retrieve, lines 34-47: the texts, in search order
FusionResults(meta, ids) ==
    LET hits == Hits(ids)
    IN  [j \in 1..Len(hits) |-> Get(meta[hits[j] + 1], "text", <<>>)]

\* 03 retrieve lines 36-58 and 05 retrieve lines 39-53, after the load
QueryRetrieve(q, k) ==
    /\ qry.pc = "loaded"
    /\ LET vecs == qry.index.recs
           meta == qry.meta.recs
           qv == Embed(q)
           ids == SearchIds(vecs, qv, k)
           err == LoopOutcome(meta, Hits(ids),
                              IF qry.entry = "cli03" THEN Keys03 ELSE Keys05)
       IN  qry' = [qry EXCEPT
                     !.pc = "done", !.q = q, !.k = k, !.ids = ids,
                     !.retrieved = TRUE, !.outcome = err,
                     !.results = IF err # "ok" THEN <<>>
                                 ELSE IF qry.entry = "cli03"
                                 THEN Results03(meta, vecs, qv, ids)
                                 ELSE Results05(qry.layer, meta, vecs, qv, ids)]
    /\ UNCHANGED <<files, modelPresent, nBuilds, bld, chk, atm, call>>

\* a guard that lets every request through
EngineUnavailableNever(qr) == FALSE

\* main.py line 77: `if not fusion_engine`
EngineUnavailable(qr) == ~qr.engine

\* main.py query_endpoint, lines 75-122: the 503 guard, retrieval with
\* top_k = 3, the LLM call (which may fail), check_grounding on the contexts
ApiQuery(q, llmOk) ==
    /\ qry.pc = "serving"
    /\ LET base == [qry EXCEPT !.q = q, !.k = API_TOP_K, !.ids = <<>>,
                               !.results = <<>>, !.retrieved = FALSE,
                               !.generated = FALSE, !.grounded = <<>>]
           vecs == qry.index.recs
           meta == qry.meta.recs
           ids == SearchIds(vecs, Embed(q), API_TOP_K)
           err == LoopOutcome(meta, Hits(ids), {})
       IN  qry' =
             IF EngineUnavailable(qry) THEN [base EXCEPT !.outcome = "HTTP503"]
             ELSE IF err # "ok"
             THEN [base EXCEPT !.ids = ids, !.retrieved = TRUE,
                               !.outcome = "HTTP500_retrieval"]
             ELSE IF ~llmOk
             THEN [base EXCEPT !.ids = ids, !.retrieved = TRUE,
                               !.results = FusionResults(meta, ids),
                               !.generated = TRUE, !.outcome = "HTTP500_llm"]
             ELSE [base EXCEPT !.ids = ids, !.retrieved = TRUE,
                               !.results = FusionResults(meta, ids),
                               !.generated = TRUE,
                               !.grounded = FusionResults(meta, ids),
                               !.outcome = "HTTP200"]
    /\ UNCHANGED <<files, modelPresent, nBuilds, bld, chk, atm, call>>

\* "General Orlando travel guidance." (11 line 56)
FallbackText ==
    [i \in 1..32 |->
        <<<<"G", "e", "n", "e", "r", "a", "l", " ", "O", "r", "l", "a", "n", "d",
            "o", " ", "t", "r", "a", "v", "e", "l", " ", "g", "u", "i", "d", "a",
            "n", "c", "e", ".">>[i], 1>>]

\* 11 retrieve, lines 45-54: the first min(top_k, len(lines)) records of the
\* metadata file, whatever the query
Results11(recs, k) ==
    [i \in 1..Min(k, Len(recs)) |->
        [text_preview |-> Preview11(Get(recs[i], "text", <<>>), PREVIEW_11)]]

\* 11 retrieve, lines 36-56: any exception yields the substitute context
retrieve11(layer, k) ==
    LET f == files[Layer11(layer)].meta
    IN  IF f.state = "ok"
        THEN [results |-> Results11(f.recs, k), fallback |-> FALSE]
        ELSE [results |-> <<[text_preview |-> FallbackText]>>, fallback |-> TRUE]

\* 11 generate_answer, lines 58-80: retrieve, build the prompt, call the LLM
\* (which may raise), log the answer
AnswerWithLlm(q, layer, k, llmOk) ==
    /\ QueryFree
    /\ LET r == retrieve11(layer, k)
       IN  qry' = [IdleQuery EXCEPT
                     !.pc = "done", !.entry = "answer11", !.layer = layer,
                     !.q = q, !.k = k, !.results = r.results,
                     !.fallback = r.fallback, !.retrieved = TRUE,
                     !.generated = TRUE,
                     !.outcome = IF llmOk THEN "ok" ELSE "LLMError"]
    /\ UNCHANGED <<files, modelPresent, nBuilds, bld, chk, atm, call>>

\* ---------------------------------------------------------------- chunker
Alphabet == <<"a", "b", "c", "d", "e", "f", "g", "h", "i", "j">>

\* a text of n one-letter words, word p being letter p; `wide` pads it with
\* leading, doubled and trailing blanks
RECURSIVE TextOfWords(_, _, _)
TextOfWords(p, n, wide) ==
    IF p > n THEN (IF wide THEN Rep(" ", 1) ELSE <<>>)
    ELSE Concat(Concat(IF wide THEN Rep(" ", 2) ELSE IF p > 1 THEN Rep(" ", 1) ELSE <<>>,
                       Rep(Alphabet[p], 1)),
                TextOfWords(p + 1, n, wide))

NoChunking == [text |-> <<>>, chunk_size |-> 0, overlap |-> 0, chunks |-> <<>>]

\* a call of simple_token_split(text, chunk_size, overlap); 04 line 31, 06 line 25
Split(text, chunk_size, overlap) ==
    /\ chk' = [text |-> text, chunk_size |-> chunk_size, overlap |-> overlap,
               chunks |-> simple_token_split(text, chunk_size, overlap)]
    /\ UNCHANGED <<files, modelPresent, nBuilds, bld, qry, atm, call>>

\* ---------------------------------------------------------- grounding_check
\* the characters of a text, one by one (halving keeps the nesting shallow)
RECURSIVE Flat(_)
Flat(s) ==
    IF s = <<>> THEN <<>>
    ELSE IF Len(s) = 1 THEN [i \in 1..s[1][2] |-> s[1][1]]
    ELSE Flat(SubSeq(s, 1, Len(s) \div 2)) \o Flat(SubSeq(s, Len(s) \div 2 + 1, Len(s)))

\* the text made of the characters f
RECURSIVE Str(_)
Str(f) ==
    IF f = <<>> THEN <<>>
    ELSE IF Len(f) = 1 THEN Rep(f[1], 1)
    ELSE Concat(Str(SubSeq(f, 1, Len(f) \div 2)), Str(SubSeq(f, Len(f) \div 2 + 1, Len(f))))

Digits == {"0", "1", "2", "3", "4", "5", "6", "7", "8", "9"}

\* the characters that are neither \w nor \s
Punctuation == {".", ",", ":", ";", "!", "?", "-", "(", ")"}

UpperToLower ==
    ("A" :> "a") @@ ("B" :> "b") @@ ("C" :> "c") @@ ("D" :> "d") @@ ("E" :> "e") @@
    ("F" :> "f") @@ ("G" :> "g") @@ ("H" :> "h") @@ ("I" :> "i") @@ ("J" :> "j") @@
    ("K" :> "k") @@ ("L" :> "l") @@ ("M" :> "m") @@ ("N" :> "n") @@ ("O" :> "o") @@
    ("P" :> "p") @@ ("Q" :> "q") @@ ("R" :> "r") @@ ("S" :> "s") @@ ("T" :> "t") @@
    ("U" :> "u") @@ ("V" :> "v") @@ ("W" :> "w") @@ ("X" :> "x") @@ ("Y" :> "y") @@
    ("Z" :> "z")

\* str.lower() on one character
Lower(c) == IF c \in DOMAIN UpperToLower THEN UpperToLower[c] ELSE c

LowerAll(f) == [i \in 1..Len(f) |-> Lower(f[i])]

\* \d{d}[:h]\d{2} matches f at position i
IsTimeAt(f, i, d) ==
    /\ i + d + 2 <= Len(f)
    /\ \A j \in i..(i + d - 1) : f[j] \in Digits
    /\ f[i + d] \in {":", "h"}
    /\ f[i + d + 1] \in Digits
    /\ f[i + d + 2] \in Digits

\* length of the match of \d{1,2}[:h]\d{2} at position i, 0 if none
TimeLenAt(f, i) ==
    IF IsTimeAt(f, i, 2) THEN 5 ELSE IF IsTimeAt(f, i, 1) THEN 4 ELSE 0

\* re.findall: the non-overlapping matches from the left, as <<start, length>>
RECURSIVE FindTimes(_, _)
FindTimes(f, i) ==
    IF i > Len(f) THEN <<>>
    ELSE IF TimeLenAt(f, i) > 0
         THEN << <<i, TimeLenAt(f, i)>> >> \o FindTimes(f, i + TimeLenAt(f, i))
         ELSE FindTimes(f, i + 1)

\* str.replace(pat, ''): every occurrence of pat, from the left, is dropped
RECURSIVE RemoveAll(_, _, _)
RemoveAll(f, pat, i) ==
    IF i > Len(f) THEN <<>>
    ELSE IF i + Len(pat) - 1 <= Len(f) /\ SubSeq(f, i, i + Len(pat) - 1) = pat
         THEN RemoveAll(f, pat, i + Len(pat))
         ELSE <<f[i]>> \o RemoveAll(f, pat, i + 1)

\* time_str.replace('h', ':')
NormalizeTime(t) == [i \in 1..Len(t) |-> IF t[i] = "h" THEN ":" ELSE t[i]]

\* f"time_{normalized}"
TimeToken(t) == <<"t", "i", "m", "e", "_">> \o NormalizeTime(t)

\* the loop over time_matches: each match is dropped from what is left of
\* the text, wherever it occurs
RECURSIVE RemoveTimes(_, _)
RemoveTimes(f, matches) ==
    IF matches = <<>> THEN f
    ELSE RemoveTimes(RemoveAll(f, matches[1], 1), Tail(matches))

\* re.sub(r'[^\w\s]', '', lower_text)
StripPunctuation(f) == SelectSeq(f, LAMBDA c : c \notin Punctuation)

\* _tokenize(text): the set of tokens, each a sequence of characters
_tokenize(text) ==
    LET lower_text == LowerAll(Flat(text))
        found == FindTimes(lower_text, 1)
        time_matches == [k \in 1..Len(found) |->
                            SubSeq(lower_text, found[k][1], found[k][1] + found[k][2] - 1)]
        clean_text == StripPunctuation(RemoveTimes(lower_text, time_matches))
        generic == Words(Str(clean_text))
    IN  {TimeToken(time_matches[k]) : k \in 1..Len(time_matches)}
            \cup {Flat(generic[k]) : k \in 1..Len(generic)}

\* the context left out of the comparison
combined_context_dropped(context_list) == <<>>

\* " ".join(context_list)
combined_context(context_list) == Join(context_list)

\* the context tokens, whether the response has them or not
intersection_context_only(context_tokens, response_tokens) == context_tokens

\* context_tokens.intersection(response_tokens)
intersection(context_tokens, response_tokens) == context_tokens \cap response_tokens

\* `if not union`
UnionEmptyNever(union) == FALSE

UnionEmpty(union) == union = {}

\* round(i / u, 4), in ten-thousandths (no i / u with u < 32 lies half-way
\* between two ten-thousandths, so nearest is well defined)
Round4(i, u) == (20000 * i + u) \div (2 * u)

\* check_grounding(query, context_list, response): the score in
\* ten-thousandths, or the exception raised
check_grounding(query, context_list, response) ==
    IF context_list = <<>> \/ response = <<>>
    THEN [raised |-> "none", score |-> 0]
    ELSE LET context_tokens == _tokenize(combined_context(context_list))
             response_tokens == _tokenize(response)
             inter == intersection(context_tokens, response_tokens)
             union == context_tokens \cup response_tokens
         IN  IF UnionEmpty(union)
             THEN [raised |-> "none", score |-> 0]
             ELSE IF Cardinality(union) = 0
                  THEN [raised |-> "ZeroDivisionError", score |-> 0]
                  ELSE [raised |-> "none",
                        score |-> Round4(Cardinality(inter), Cardinality(union))]

\* the pieces the texts handed to the scorer are made of
Pieces ==
    {Str(<<"o", "p", "e", "n">>), Str(<<"2", ":", "0", "0">>),
     Str(<<"1", "2", ":", "0", "0">>), Str(<<"9", "H", "3", "0">>),
     Str(<<".", ".", ".">>)}

\* the texts made of at most MaxPieces different pieces, a blank between them
GroundTexts == {Join(ps) : ps \in SeqsUpTo(Pieces, MaxPieces)}

\* the retrieved contexts: a punctuation-only text, a word, two times
ContextTexts ==
    {Str(<<".", ".", ".">>), Str(<<"o", "p", "e", "n">>),
     Join(<<Str(<<"2", ":", "0", "0">>), Str(<<"1", "2", "h", "0", "0">>)>>)}

QueryTexts == {Str(<<"o", "p", "e", "n">>), Str(<<"w", "h", "e", "n">>)}

NoCall == [fn |-> "none"]

\* a process that calls one library function
LibFree == call.fn = "none"

\* a call of check_grounding (main.py line 109)
CheckGrounding(query, context_list, response) ==
    /\ LibFree
    /\ call' = [fn |-> "check_grounding", query |-> query,
                context_list |-> context_list, response |-> response,
                result |-> check_grounding(query, context_list, response)]
    /\ UNCHANGED <<files, modelPresent, nBuilds, bld, qry, chk, atm>>

\* a call of _tokenize
Tokenize(text) ==
    /\ LibFree
    /\ call' = [fn |-> "_tokenize", text |-> text, tokens |-> _tokenize(text)]
    /\ UNCHANGED <<files, modelPresent, nBuilds, bld, qry, chk, atm>>

\* ------------------------------------------------------ validate_atomic_core
REQUIRED_FIELDS ==
    {"entity", "attribute", "value", "source_document", "year_or_season", "text"}

MAX_WORDS == 40

\* a JSON value: a string, or a value of another type (null, a number)
JsonStr(t) == [type |-> "str", s |-> t]

JsonOther == [type |-> "other", s |-> <<>>]

\* str.strip()
RECURSIVE LStrip(_)
LStrip(s) == IF s # <<>> /\ s[1][1] \in Whitespace THEN LStrip(Tail(s)) ELSE s

RECURSIVE RStrip(_)
RStrip(s) ==
    IF s # <<>> /\ s[Len(s)][1] \in Whitespace THEN RStrip(SubSeq(s, 1, Len(s) - 1)) ELSE s

Strip(s) == RStrip(LStrip(s))

\* text.count(c)
RECURSIVE Count(_, _)
Count(s, c) ==
    IF s = <<>> THEN 0 ELSE (IF s[1][1] = c THEN s[1][2] ELSE 0) + Count(Tail(s), c)

\* not isinstance(chunk.get(field), str) or not chunk[field].strip()
NotNonEmptyString(chunk, field) ==
    \/ field \notin DOMAIN chunk
    \/ chunk[field].type # "str"
    \/ Strip(chunk[field].s) = <<>>

\* len(text.split()) > 40
TooManyWordsFrom40(text) == Len(Words(text)) >= MAX_WORDS

TooManyWords(text) == Len(Words(text)) > MAX_WORDS

\* text.count(".") > 1 or "\n" in text or len(text.split()) > 40
NotSingleSentence(text) ==
    \/ Count(text, ".") > 1
    \/ Count(text, "\n") > 0
    \/ TooManyWords(text)

\* the messages of the checks that come before the text is read (the order
\* of the "Missing field" messages is the iteration order of a set)
FieldErrors(chunk) ==
    {[err |-> "Missing field", field |-> f] : f \in REQUIRED_FIELDS \ DOMAIN chunk}
    \cup {[err |-> "must be a non-empty string", field |-> f] :
            f \in {g \in {"entity", "attribute", "value", "text"} : NotNonEmptyString(chunk, g)}}

\* validate_chunk(chunk, idx): the messages returned, or the exception
\* raised by chunk["text"].strip()
validate_chunk(chunk, idx) ==
    IF "text" \notin DOMAIN chunk
    THEN [raised |-> "KeyError", errors |-> {}]
    ELSE IF chunk["text"].type # "str"
    THEN [raised |-> "AttributeError", errors |-> {}]
    ELSE LET errors ==
                FieldErrors(chunk) \cup
                (IF NotSingleSentence(Strip(chunk["text"].s))
                 THEN {[err |-> "Text should be a single factual sentence", field |-> "text"]}
                 ELSE {})
         IN  [raised |-> "none",
              errors |-> {[idx |-> idx, err |-> e.err, field |-> e.field] : e \in errors}]

\* n one-letter words with a period at the end: "a a ... a."
WordsText(n) ==
    [i \in 1..(2 * n) |->
        IF i = 2 * n THEN <<".", 1>> ELSE IF i % 2 = 1 THEN <<"a", 1>> ELSE <<" ", 1>>]

\* the values of the `text` field handed to the validator
ValidatorTexts ==
    {WordsText(2), WordsText(MAX_WORDS), WordsText(MAX_WORDS + 1),
     Str(<<"a", ".", " ", "b", ".">>), Str(<<"a", "\n", "b", ".">>),
     Str(<<" ", "a", ".", "\n">>), Str(<<" ", " ">>), <<>>}

\* the absence of a field from the record
Missing == [type |-> "missing", s |-> <<>>]

\* what a field may hold, or its absence
FieldValues(field) ==
    {Missing} \cup
    (IF field = "text"
     THEN {JsonStr(t) : t \in ValidatorTexts} \cup {JsonOther}
     ELSE IF field \in {"source_document", "year_or_season"}
     THEN {JsonStr(Rep("d", 1)), JsonOther}
     ELSE {JsonStr(Rep("e", 1)), JsonStr(Rep(" ", 1)), JsonOther})

\* the JSON object with the fields of `all` that are not missing
Chunk(all) == [f \in {g \in DOMAIN all : all[g] # Missing} |-> all[f]]

\* a call of validate_chunk (10 line 53)
ValidateChunk(chunk, idx) ==
    /\ LibFree
    /\ call' = [fn |-> "validate_chunk", chunk |-> chunk, idx |-> idx,
                result |-> validate_chunk(chunk, idx)]
    /\ UNCHANGED <<files, modelPresent, nBuilds, bld, qry, chk, atm>>

\* ---------------------------------------------------------- parse_core_atomic
\* the string literals of the extractor as sequences of characters (Pat, Kw)
\* and as texts (Txt); the documents (Page) and sentences (Sent) handed to it

\* the patterns of the park rules, as sequences of characters
Pat ==
      \* "Magic Kingdom: "
    [ MagicKingdom |->
          <<"M", "a", "g", "i", "c", " ", "K", "i", "n", "g", "d", "o", "m", ":", " ">>,
      \* "EPCOT: "
      EPCOT |->
          <<"E", "P", "C", "O", "T", ":", " ">>,
      \* "LEGOLAND Florida (Winter Haven): "
      Legoland |->
          <<"L", "E", "G", "O", "L", "A", "N", "D", " ", "F", "l", "o", "r", "i", "d", "a",
          " ", "(", "W", "i", "n", "t", "e", "r", " ", "H", "a", "v", "e", "n", ")", ":",
          " ">> ]

\* the substrings the extractor looks for, as sequences of characters
Kw ==
      \* "Early Entry"
    [ EarlyEntry |->
          <<"E", "a", "r", "l", "y", " ", "E", "n", "t", "r", "y">>,
      \* "Early Park Admission"
      EarlyParkAdmission |->
          <<"E", "a", "r", "l", "y", " ", "P", "a", "r", "k", " ", "A", "d", "m", "i", "s",
          "s", "i", "o", "n">>,
      \* "Winter Haven"
      WinterHaven |->
          <<"W", "i", "n", "t", "e", "r", " ", "H", "a", "v", "e", "n">>,
      \* "open"
      Open |->
          <<"o", "p", "e", "n">>,
      \* "close"
      Close |->
          <<"c", "l", "o", "s", "e">>,
      \* "hour"
      Hour |->
          <<"h", "o", "u", "r">>,
      \* "time"
      Time |->
          <<"t", "i", "m", "e">>,
      \* "located"
      Located |->
          <<"l", "o", "c", "a", "t", "e", "d">>,
      \* "entry"
      Entry |->
          <<"e", "n", "t", "r", "y">> ]

\* the strings the extractor writes into its facts
Txt ==
      \* "Magic Kingdom"
    [ MagicKingdom |->
          <<<<"M", 1>>, <<"a", 1>>, <<"g", 1>>, <<"i", 1>>, <<"c", 1>>, <<" ", 1>>, <<"K", 1>>,
          <<"i", 1>>, <<"n", 1>>, <<"g", 1>>, <<"d", 1>>, <<"o", 1>>, <<"m", 1>>>>,
      \* "EPCOT"
      EPCOT |->
          <<<<"E", 1>>, <<"P", 1>>, <<"C", 1>>, <<"O", 1>>, <<"T", 1>>>>,
      \* "LEGOLAND Florida"
      LegolandFlorida |->
          <<<<"L", 1>>, <<"E", 1>>, <<"G", 1>>, <<"O", 1>>, <<"L", 1>>, <<"A", 1>>, <<"N", 1>>,
          <<"D", 1>>, <<" ", 1>>, <<"F", 1>>, <<"l", 1>>, <<"o", 1>>, <<"r", 1>>, <<"i", 1>>,
          <<"d", 1>>, <<"a", 1>>>>,
      \* "Peppa Pig Theme Park"
      PeppaPig |->
          <<<<"P", 1>>, <<"e", 1>>, <<"p", 2>>, <<"a", 1>>, <<" ", 1>>, <<"P", 1>>, <<"i", 1>>,
          <<"g", 1>>, <<" ", 1>>, <<"T", 1>>, <<"h", 1>>, <<"e", 1>>, <<"m", 1>>, <<"e", 1>>,
          <<" ", 1>>, <<"P", 1>>, <<"a", 1>>, <<"r", 1>>, <<"k", 1>>>>,
      \* "Walt Disney World Resort"
      WaltDisneyWorld |->
          <<<<"W", 1>>, <<"a", 1>>, <<"l", 1>>, <<"t", 1>>, <<" ", 1>>, <<"D", 1>>, <<"i", 1>>,
          <<"s", 1>>, <<"n", 1>>, <<"e", 1>>, <<"y", 1>>, <<" ", 1>>, <<"W", 1>>, <<"o", 1>>,
          <<"r", 1>>, <<"l", 1>>, <<"d", 1>>, <<" ", 1>>, <<"R", 1>>, <<"e", 1>>, <<"s", 1>>,
          <<"o", 1>>, <<"r", 1>>, <<"t", 1>>>>,
      \* "Universal Orlando Resort"
      UniversalOrlando |->
          <<<<"U", 1>>, <<"n", 1>>, <<"i", 1>>, <<"v", 1>>, <<"e", 1>>, <<"r", 1>>, <<"s", 1>>,
          <<"a", 1>>, <<"l", 1>>, <<" ", 1>>, <<"O", 1>>, <<"r", 1>>, <<"l", 1>>, <<"a", 1>>,
          <<"n", 1>>, <<"d", 1>>, <<"o", 1>>, <<" ", 1>>, <<"R", 1>>, <<"e", 1>>, <<"s", 1>>,
          <<"o", 1>>, <<"r", 1>>, <<"t", 1>>>>,
      \* "unknown"
      Unknown |->
          <<<<"u", 1>>, <<"n", 1>>, <<"k", 1>>, <<"n", 1>>, <<"o", 1>>, <<"w", 1>>, <<"n", 1>>>>,
      \* " operating hours during "
      OperatingHoursDuring |->
          <<<<" ", 1>>, <<"o", 1>>, <<"p", 1>>, <<"e", 1>>, <<"r", 1>>, <<"a", 1>>, <<"t", 1>>,
          <<"i", 1>>, <<"n", 1>>, <<"g", 1>>, <<" ", 1>>, <<"h", 1>>, <<"o", 1>>, <<"u", 1>>,
          <<"r", 1>>, <<"s", 1>>, <<" ", 1>>, <<"d", 1>>, <<"u", 1>>, <<"r", 1>>, <<"i", 1>>,
          <<"n", 1>>, <<"g", 1>>, <<" ", 1>>>>,
      \* "December 2025"
      December2025 |->
          <<<<"D", 1>>, <<"e", 1>>, <<"c", 1>>, <<"e", 1>>, <<"m", 1>>, <<"b", 1>>, <<"e", 1>>,
          <<"r", 1>>, <<" ", 1>>, <<"2", 1>>, <<"0", 1>>, <<"2", 1>>, <<"5", 1>>>>,
      \* "30 minutes before official opening for Disney hotel guests"
      EarlyEntryValue |->
          <<<<"3", 1>>, <<"0", 1>>, <<" ", 1>>, <<"m", 1>>, <<"i", 1>>, <<"n", 1>>, <<"u", 1>>,
          <<"t", 1>>, <<"e", 1>>, <<"s", 1>>, <<" ", 1>>, <<"b", 1>>, <<"e", 1>>, <<"f", 1>>,
          <<"o", 1>>, <<"r", 1>>, <<"e", 1>>, <<" ", 1>>, <<"o", 1>>, <<"f", 2>>, <<"i", 1>>,
          <<"c", 1>>, <<"i", 1>>, <<"a", 1>>, <<"l", 1>>, <<" ", 1>>, <<"o", 1>>, <<"p", 1>>,
          <<"e", 1>>, <<"n", 1>>, <<"i", 1>>, <<"n", 1>>, <<"g", 1>>, <<" ", 1>>, <<"f", 1>>,
          <<"o", 1>>, <<"r", 1>>, <<" ", 1>>, <<"D", 1>>, <<"i", 1>>, <<"s", 1>>, <<"n", 1>>,
          <<"e", 1>>, <<"y", 1>>, <<" ", 1>>, <<"h", 1>>, <<"o", 1>>, <<"t", 1>>, <<"e", 1>>,
          <<"l", 1>>, <<" ", 1>>, <<"g", 1>>, <<"u", 1>>, <<"e", 1>>, <<"s", 1>>, <<"t", 1>>,
          <<"s", 1>>>>,
      \* "1 hour before official opening for hotel guests"
      EarlyAdmissionValue |->
          <<<<"1", 1>>, <<" ", 1>>, <<"h", 1>>, <<"o", 1>>, <<"u", 1>>, <<"r", 1>>, <<" ", 1>>,
          <<"b", 1>>, <<"e", 1>>, <<"f", 1>>, <<"o", 1>>, <<"r", 1>>, <<"e", 1>>, <<" ", 1>>,
          <<"o", 1>>, <<"f", 2>>, <<"i", 1>>, <<"c", 1>>, <<"i", 1>>, <<"a", 1>>, <<"l", 1>>,
          <<" ", 1>>, <<"o", 1>>, <<"p", 1>>, <<"e", 1>>, <<"n", 1>>, <<"i", 1>>, <<"n", 1>>,
          <<"g", 1>>, <<" ", 1>>, <<"f", 1>>, <<"o", 1>>, <<"r", 1>>, <<" ", 1>>, <<"h", 1>>,
          <<"o", 1>>, <<"t", 1>>, <<"e", 1>>, <<"l", 1>>, <<" ", 1>>, <<"g", 1>>, <<"u", 1>>,
          <<"e", 1>>, <<"s", 1>>, <<"t", 1>>, <<"s", 1>>>>,
      \* "Winter Haven, Florida"
      WinterHavenFlorida |->
          <<<<"W", 1>>, <<"i", 1>>, <<"n", 1>>, <<"t", 1>>, <<"e", 1>>, <<"r", 1>>, <<" ", 1>>,
          <<"H", 1>>, <<"a", 1>>, <<"v", 1>>, <<"e", 1>>, <<"n", 1>>, <<",", 1>>, <<" ", 1>>,
          <<"F", 1>>, <<"l", 1>>, <<"o", 1>>, <<"r", 1>>, <<"i", 1>>, <<"d", 1>>, <<"a", 1>>>>,
      \* "Walt Disney World Resort offers Early Entry (30 minutes before official opening) for hotel guests during December 2025."
      EarlyEntryText |->
          <<<<"W", 1>>, <<"a", 1>>, <<"l", 1>>, <<"t", 1>>, <<" ", 1>>, <<"D", 1>>, <<"i", 1>>,
          <<"s", 1>>, <<"n", 1>>, <<"e", 1>>, <<"y", 1>>, <<" ", 1>>, <<"W", 1>>, <<"o", 1>>,
          <<"r", 1>>, <<"l", 1>>, <<"d", 1>>, <<" ", 1>>, <<"R", 1>>, <<"e", 1>>, <<"s", 1>>,
          <<"o", 1>>, <<"r", 1>>, <<"t", 1>>, <<" ", 1>>, <<"o", 1>>, <<"f", 2>>, <<"e", 1>>,
          <<"r", 1>>, <<"s", 1>>, <<" ", 1>>, <<"E", 1>>, <<"a", 1>>, <<"r", 1>>, <<"l", 1>>,
          <<"y", 1>>, <<" ", 1>>, <<"E", 1>>, <<"n", 1>>, <<"t", 1>>, <<"r", 1>>, <<"y", 1>>,
          <<" ", 1>>, <<"(", 1>>, <<"3", 1>>, <<"0", 1>>, <<" ", 1>>, <<"m", 1>>, <<"i", 1>>,
          <<"n", 1>>, <<"u", 1>>, <<"t", 1>>, <<"e", 1>>, <<"s", 1>>, <<" ", 1>>, <<"b", 1>>,
          <<"e", 1>>, <<"f", 1>>, <<"o", 1>>, <<"r", 1>>, <<"e", 1>>, <<" ", 1>>, <<"o", 1>>,
          <<"f", 2>>, <<"i", 1>>, <<"c", 1>>, <<"i", 1>>, <<"a", 1>>, <<"l", 1>>, <<" ", 1>>,
          <<"o", 1>>, <<"p", 1>>, <<"e", 1>>, <<"n", 1>>, <<"i", 1>>, <<"n", 1>>, <<"g", 1>>,
          <<")", 1>>, <<" ", 1>>, <<"f", 1>>, <<"o", 1>>, <<"r", 1>>, <<" ", 1>>, <<"h", 1>>,
          <<"o", 1>>, <<"t", 1>>, <<"e", 1>>, <<"l", 1>>, <<" ", 1>>, <<"g", 1>>, <<"u", 1>>,
          <<"e", 1>>, <<"s", 1>>, <<"t", 1>>, <<"s", 1>>, <<" ", 1>>, <<"d", 1>>, <<"u", 1>>,
          <<"r", 1>>, <<"i", 1>>, <<"n", 1>>, <<"g", 1>>, <<" ", 1>>, <<"D", 1>>, <<"e", 1>>,
          <<"c", 1>>, <<"e", 1>>, <<"m", 1>>, <<"b", 1>>, <<"e", 1>>, <<"r", 1>>, <<" ", 1>>,
          <<"2", 1>>, <<"0", 1>>, <<"2", 1>>, <<"5", 1>>, <<".", 1>>>>,
      \* "Universal Orlando Resort offers Early Park Admission (1 hour before official opening) for hotel guests during December 2025."
      EarlyAdmissionText |->
          <<<<"U", 1>>, <<"n", 1>>, <<"i", 1>>, <<"v", 1>>, <<"e", 1>>, <<"r", 1>>, <<"s", 1>>,
          <<"a", 1>>, <<"l", 1>>, <<" ", 1>>, <<"O", 1>>, <<"r", 1>>, <<"l", 1>>, <<"a", 1>>,
          <<"n", 1>>, <<"d", 1>>, <<"o", 1>>, <<" ", 1>>, <<"R", 1>>, <<"e", 1>>, <<"s", 1>>,
          <<"o", 1>>, <<"r", 1>>, <<"t", 1>>, <<" ", 1>>, <<"o", 1>>, <<"f", 2>>, <<"e", 1>>,
          <<"r", 1>>, <<"s", 1>>, <<" ", 1>>, <<"E", 1>>, <<"a", 1>>, <<"r", 1>>, <<"l", 1>>,
          <<"y", 1>>, <<" ", 1>>, <<"P", 1>>, <<"a", 1>>, <<"r", 1>>, <<"k", 1>>, <<" ", 1>>,
          <<"A", 1>>, <<"d", 1>>, <<"m", 1>>, <<"i", 1>>, <<"s", 2>>, <<"i", 1>>, <<"o", 1>>,
          <<"n", 1>>, <<" ", 1>>, <<"(", 1>>, <<"1", 1>>, <<" ", 1>>, <<"h", 1>>, <<"o", 1>>,
          <<"u", 1>>, <<"r", 1>>, <<" ", 1>>, <<"b", 1>>, <<"e", 1>>, <<"f", 1>>, <<"o", 1>>,
          <<"r", 1>>, <<"e", 1>>, <<" ", 1>>, <<"o", 1>>, <<"f", 2>>, <<"i", 1>>, <<"c", 1>>,
          <<"i", 1>>, <<"a", 1>>, <<"l", 1>>, <<" ", 1>>, <<"o", 1>>, <<"p", 1>>, <<"e", 1>>,
          <<"n", 1>>, <<"i", 1>>, <<"n", 1>>, <<"g", 1>>, <<")", 1>>, <<" ", 1>>, <<"f", 1>>,
          <<"o", 1>>, <<"r", 1>>, <<" ", 1>>, <<"h", 1>>, <<"o", 1>>, <<"t", 1>>, <<"e", 1>>,
          <<"l", 1>>, <<" ", 1>>, <<"g", 1>>, <<"u", 1>>, <<"e", 1>>, <<"s", 1>>, <<"t", 1>>,
          <<"s", 1>>, <<" ", 1>>, <<"d", 1>>, <<"u", 1>>, <<"r", 1>>, <<"i", 1>>, <<"n", 1>>,
          <<"g", 1>>, <<" ", 1>>, <<"D", 1>>, <<"e", 1>>, <<"c", 1>>, <<"e", 1>>, <<"m", 1>>,
          <<"b", 1>>, <<"e", 1>>, <<"r", 1>>, <<" ", 1>>, <<"2", 1>>, <<"0", 1>>, <<"2", 1>>,
          <<"5", 1>>, <<".", 1>>>>,
      \* "LEGOLAND Florida is located in Winter Haven, Florida."
      LegolandLocationText |->
          <<<<"L", 1>>, <<"E", 1>>, <<"G", 1>>, <<"O", 1>>, <<"L", 1>>, <<"A", 1>>, <<"N", 1>>,
          <<"D", 1>>, <<" ", 1>>, <<"F", 1>>, <<"l", 1>>, <<"o", 1>>, <<"r", 1>>, <<"i", 1>>,
          <<"d", 1>>, <<"a", 1>>, <<" ", 1>>, <<"i", 1>>, <<"s", 1>>, <<" ", 1>>, <<"l", 1>>,
          <<"o", 1>>, <<"c", 1>>, <<"a", 1>>, <<"t", 1>>, <<"e", 1>>, <<"d", 1>>, <<" ", 1>>,
          <<"i", 1>>, <<"n", 1>>, <<" ", 1>>, <<"W", 1>>, <<"i", 1>>, <<"n", 1>>, <<"t", 1>>,
          <<"e", 1>>, <<"r", 1>>, <<" ", 1>>, <<"H", 1>>, <<"a", 1>>, <<"v", 1>>, <<"e", 1>>,
          <<"n", 1>>, <<",", 1>>, <<" ", 1>>, <<"F", 1>>, <<"l", 1>>, <<"o", 1>>, <<"r", 1>>,
          <<"i", 1>>, <<"d", 1>>, <<"a", 1>>, <<".", 1>>>>,
      \* "Peppa Pig Theme Park is located in Winter Haven, Florida."
      PeppaPigLocationText |->
          <<<<"P", 1>>, <<"e", 1>>, <<"p", 2>>, <<"a", 1>>, <<" ", 1>>, <<"P", 1>>, <<"i", 1>>,
          <<"g", 1>>, <<" ", 1>>, <<"T", 1>>, <<"h", 1>>, <<"e", 1>>, <<"m", 1>>, <<"e", 1>>,
          <<" ", 1>>, <<"P", 1>>, <<"a", 1>>, <<"r", 1>>, <<"k", 1>>, <<" ", 1>>, <<"i", 1>>,
          <<"s", 1>>, <<" ", 1>>, <<"l", 1>>, <<"o", 1>>, <<"c", 1>>, <<"a", 1>>, <<"t", 1>>,
          <<"e", 1>>, <<"d", 1>>, <<" ", 1>>, <<"i", 1>>, <<"n", 1>>, <<" ", 1>>, <<"W", 1>>,
          <<"i", 1>>, <<"n", 1>>, <<"t", 1>>, <<"e", 1>>, <<"r", 1>>, <<" ", 1>>, <<"H", 1>>,
          <<"a", 1>>, <<"v", 1>>, <<"e", 1>>, <<"n", 1>>, <<",", 1>>, <<" ", 1>>, <<"F", 1>>,
          <<"l", 1>>, <<"o", 1>>, <<"r", 1>>, <<"i", 1>>, <<"d", 1>>, <<"a", 1>>, <<".", 1>>>>,
      \* "9:00 AM - 10:00 PM"
      Hours9to10 |->
          <<<<"9", 1>>, <<":", 1>>, <<"0", 2>>, <<" ", 1>>, <<"A", 1>>, <<"M", 1>>, <<" ", 1>>, <<"-", 1>>,
          <<" ", 1>>, <<"1", 1>>, <<"0", 1>>, <<":", 1>>, <<"0", 2>>, <<" ", 1>>, <<"P", 1>>, <<"M", 1>>>> ]

\* pieces of the park-hours table handed to the extractor
Page ==
      \* "Magic Kingdom: 9:00 AM - 10:00 PM, "
    [ MagicKingdomHours |->
          <<<<"M", 1>>, <<"a", 1>>, <<"g", 1>>, <<"i", 1>>, <<"c", 1>>, <<" ", 1>>, <<"K", 1>>,
          <<"i", 1>>, <<"n", 1>>, <<"g", 1>>, <<"d", 1>>, <<"o", 1>>, <<"m", 1>>, <<":", 1>>,
          <<" ", 1>>, <<"9", 1>>, <<":", 1>>, <<"0", 2>>, <<" ", 1>>, <<"A", 1>>, <<"M", 1>>,
          <<" ", 1>>, <<"-", 1>>, <<" ", 1>>, <<"1", 1>>, <<"0", 1>>, <<":", 1>>, <<"0", 2>>,
          <<" ", 1>>, <<"P", 1>>, <<"M", 1>>, <<",", 1>>, <<" ", 1>>>>,
      \* "Magic Kingdom: , "
      MagicKingdomNoHours |->
          <<<<"M", 1>>, <<"a", 1>>, <<"g", 1>>, <<"i", 1>>, <<"c", 1>>, <<" ", 1>>, <<"K", 1>>,
          <<"i", 1>>, <<"n", 1>>, <<"g", 1>>, <<"d", 1>>, <<"o", 1>>, <<"m", 1>>, <<":", 1>>,
          <<" ", 1>>, <<",", 1>>, <<" ", 1>>>>,
      \* "Magic  Kingdom:\n 8 AM - 11 PM "
      MagicKingdomLate |->
          <<<<"M", 1>>, <<"a", 1>>, <<"g", 1>>, <<"i", 1>>, <<"c", 1>>, <<" ", 2>>, <<"K", 1>>,
          <<"i", 1>>, <<"n", 1>>, <<"g", 1>>, <<"d", 1>>, <<"o", 1>>, <<"m", 1>>, <<":", 1>>,
          <<"\n", 1>>, <<" ", 1>>, <<"8", 1>>, <<" ", 1>>, <<"A", 1>>, <<"M", 1>>, <<" ", 1>>,
          <<"-", 1>>, <<" ", 1>>, <<"1", 2>>, <<" ", 1>>, <<"P", 1>>, <<"M", 1>>, <<" ", 1>>>>,
      \* "EPCOT: 9-9 "
      EpcotHours |->
          <<<<"E", 1>>, <<"P", 1>>, <<"C", 1>>, <<"O", 1>>, <<"T", 1>>, <<":", 1>>, <<" ", 1>>,
          <<"9", 1>>, <<"-", 1>>, <<"9", 1>>, <<" ", 1>>>>,
      \* "LEGOLAND Florida: 10-5, "
      LegolandByLabel |->
          <<<<"L", 1>>, <<"E", 1>>, <<"G", 1>>, <<"O", 1>>, <<"L", 1>>, <<"A", 1>>, <<"N", 1>>,
          <<"D", 1>>, <<" ", 1>>, <<"F", 1>>, <<"l", 1>>, <<"o", 1>>, <<"r", 1>>, <<"i", 1>>,
          <<"d", 1>>, <<"a", 1>>, <<":", 1>>, <<" ", 1>>, <<"1", 1>>, <<"0", 1>>, <<"-", 1>>,
          <<"5", 1>>, <<",", 1>>, <<" ", 1>>>>,
      \* "LEGOLAND Florida (Winter Haven): 10-5, "
      LegolandByPattern |->
          <<<<"L", 1>>, <<"E", 1>>, <<"G", 1>>, <<"O", 1>>, <<"L", 1>>, <<"A", 1>>, <<"N", 1>>,
          <<"D", 1>>, <<" ", 1>>, <<"F", 1>>, <<"l", 1>>, <<"o", 1>>, <<"r", 1>>, <<"i", 1>>,
          <<"d", 1>>, <<"a", 1>>, <<" ", 1>>, <<"(", 1>>, <<"W", 1>>, <<"i", 1>>, <<"n", 1>>,
          <<"t", 1>>, <<"e", 1>>, <<"r", 1>>, <<" ", 1>>, <<"H", 1>>, <<"a", 1>>, <<"v", 1>>,
          <<"e", 1>>, <<"n", 1>>, <<")", 1>>, <<":", 1>>, <<" ", 1>>, <<"1", 1>>, <<"0", 1>>,
          <<"-", 1>>, <<"5", 1>>, <<",", 1>>, <<" ", 1>>>>,
      \* "Early Entry at 8:30. "
      EarlyEntry |->
          <<<<"E", 1>>, <<"a", 1>>, <<"r", 1>>, <<"l", 1>>, <<"y", 1>>, <<" ", 1>>, <<"E", 1>>,
          <<"n", 1>>, <<"t", 1>>, <<"r", 1>>, <<"y", 1>>, <<" ", 1>>, <<"a", 1>>, <<"t", 1>>,
          <<" ", 1>>, <<"8", 1>>, <<":", 1>>, <<"3", 1>>, <<"0", 1>>, <<".", 1>>, <<" ", 1>>>> ]

\* sentences of the guides handed to the extractor
Sent ==
      \* "The park opens at 9."
    [ OpensAt9 |->
          <<<<"T", 1>>, <<"h", 1>>, <<"e", 1>>, <<" ", 1>>, <<"p", 1>>, <<"a", 1>>, <<"r", 1>>,
          <<"k", 1>>, <<" ", 1>>, <<"o", 1>>, <<"p", 1>>, <<"e", 1>>, <<"n", 1>>, <<"s", 1>>,
          <<" ", 1>>, <<"a", 1>>, <<"t", 1>>, <<" ", 1>>, <<"9", 1>>, <<".", 1>>>>,
      \* "The park opens at 10."
      OpensAt10 |->
          <<<<"T", 1>>, <<"h", 1>>, <<"e", 1>>, <<" ", 1>>, <<"p", 1>>, <<"a", 1>>, <<"r", 1>>,
          <<"k", 1>>, <<" ", 1>>, <<"o", 1>>, <<"p", 1>>, <<"e", 1>>, <<"n", 1>>, <<"s", 1>>,
          <<" ", 1>>, <<"a", 1>>, <<"t", 1>>, <<" ", 1>>, <<"1", 1>>, <<"0", 1>>, <<".", 1>>>>,
      \* "Bring a hat and sunscreen."
      NoKeyword |->
          <<<<"B", 1>>, <<"r", 1>>, <<"i", 1>>, <<"n", 1>>, <<"g", 1>>, <<" ", 1>>, <<"a", 1>>,
          <<" ", 1>>, <<"h", 1>>, <<"a", 1>>, <<"t", 1>>, <<" ", 1>>, <<"a", 1>>, <<"n", 1>>,
          <<"d", 1>>, <<" ", 1>>, <<"s", 1>>, <<"u", 1>>, <<"n", 1>>, <<"s", 1>>, <<"c", 1>>,
          <<"r", 1>>, <<"e", 2>>, <<"n", 1>>, <<".", 1>>>>,
      \* "It is LOCATED near the lake!"
      Located |->
          <<<<"I", 1>>, <<"t", 1>>, <<" ", 1>>, <<"i", 1>>, <<"s", 1>>, <<" ", 1>>, <<"L", 1>>,
          <<"O", 1>>, <<"C", 1>>, <<"A", 1>>, <<"T", 1>>, <<"E", 1>>, <<"D", 1>>, <<" ", 1>>,
          <<"n", 1>>, <<"e", 1>>, <<"a", 1>>, <<"r", 1>>, <<" ", 1>>, <<"t", 1>>, <<"h", 1>>,
          <<"e", 1>>, <<" ", 1>>, <<"l", 1>>, <<"a", 1>>, <<"k", 1>>, <<"e", 1>>, <<"!", 1>>>> ]

MIN_SENTENCE == 20
MAX_SENTENCE == 120

\* s + t for two collapsed texts: blanks that meet become one space
ConcatBlanks(s, t) ==
    IF s # <<>> /\ t # <<>> /\ s[Len(s)][1] = " " /\ t[1][1] = " "
    THEN s \o Tail(t)
    ELSE Concat(s, t)

\* re.sub(r"\s+", " ", ...): every run of blanks becomes one space
RECURSIVE CollapseBlanks(_)
CollapseBlanks(s) ==
    IF s = <<>> THEN <<>>
    ELSE IF Len(s) = 1 THEN (IF s[1][1] \in Whitespace THEN Rep(" ", 1) ELSE s)
    ELSE ConcatBlanks(CollapseBlanks(SubSeq(s, 1, Len(s) \div 2)),
                      CollapseBlanks(SubSeq(s, Len(s) \div 2 + 1, Len(s))))

\* text = re.sub(r"\s+", " ", text.strip())
NormalizeText(text) == CollapseBlanks(Strip(text))

\* "Orlando_Park_Hours_Dez2025" in source_doc
StructuredSources == {"Orlando_Park_Hours_Dez2025.pdf"}

Sources == StructuredSources \cup {"doc.pdf"}

\* three of the fourteen park rules: two of the thirteen whose pattern is the
\* label followed by ": ", and the LEGOLAND rule, whose pattern is not
park_rules ==
    << [park |-> Txt.MagicKingdom, pattern |-> Pat.MagicKingdom],
       [park |-> Txt.EPCOT, pattern |-> Pat.EPCOT],
       [park |-> Txt.LegolandFlorida, pattern |-> Pat.Legoland] >>

\* pat occurs in f at position i
Occurs(f, pat, i) == i + Len(pat) - 1 <= Len(f) /\ SubSeq(f, i, i + Len(pat) - 1) = pat

\* `pat in f`
Contains(f, pat) == \E i \in 1..Len(f) : Occurs(f, pat, i)

\* the positions at which pat followed by ([^,]+) matches
MatchStarts(f, pat) ==
    {i \in 1..Len(f) : Occurs(f, pat, i) /\ i + Len(pat) <= Len(f) /\ f[i + Len(pat)] # ","}

SetMin(S) == CHOOSE x \in S : \A y \in S : x <= y

\* a group that stops at the first blank as well
GroupEndAtBlank(f, a) ==
    CHOOSE j \in a..Len(f) :
        /\ \A m \in a..j : f[m] \notin {",", " "}
        /\ j = Len(f) \/ f[j + 1] \in {",", " "}

\* the last character of the group ([^,]+) that starts at a: greedy
GroupEnd(f, a) ==
    CHOOSE j \in a..Len(f) :
        /\ \A m \in a..j : f[m] # ","
        /\ j = Len(f) \/ f[j + 1] = ","

\* re.search(pattern, text).group(1).strip(), the pattern being known to match
Hours(f, pat) ==
    LET a == SetMin(MatchStarts(f, pat)) + Len(pat)
    IN  Strip(Str(SubSeq(f, a, GroupEnd(f, a))))

\* the fact of lines 61-68
HoursFact(park, hours, source_doc) ==
    [entity |-> park, attribute |-> "operating_hours", value |-> hours,
     source_document |-> source_doc, year_or_season |-> "December 2025",
     text |-> Concat(park, Concat(Txt.OperatingHoursDuring, Concat(Txt.December2025,
                Concat(Str(<<":", " ">>), Concat(hours, Rep(".", 1))))))]

\* the facts of lines 72-79, 81-88 and 92-107
DerivedFact(entity, attribute, value, text, source_doc) ==
    [entity |-> entity, attribute |-> attribute, value |-> value,
     source_document |-> source_doc, year_or_season |-> "December 2025", text |-> text]

\* the fact of lines 116-123
GenericFact(sent, source_doc) ==
    [entity |-> Txt.Unknown, attribute |-> "generic_factual", value |-> sent,
     source_document |-> source_doc, year_or_season |-> "unknown", text |-> sent]

\* the structured path, lines 57-107
StructuredFacts(t, source_doc) ==
    LET f == Flat(t)
        matched == SelectSeq([r \in 1..Len(park_rules) |-> r],
                             LAMBDA r : MatchStarts(f, park_rules[r].pattern) # {})
    IN  [k \in 1..Len(matched) |->
            HoursFact(park_rules[matched[k]].park,
                      Hours(f, park_rules[matched[k]].pattern), source_doc)]
        \o (IF Contains(f, Kw.EarlyEntry)
            THEN <<DerivedFact(Txt.WaltDisneyWorld, "early_entry_rule", Txt.EarlyEntryValue,
                               Txt.EarlyEntryText, source_doc)>>
            ELSE <<>>)
        \o (IF Contains(f, Kw.EarlyParkAdmission)
            THEN <<DerivedFact(Txt.UniversalOrlando, "early_admission_rule",
                               Txt.EarlyAdmissionValue, Txt.EarlyAdmissionText, source_doc)>>
            ELSE <<>>)
        \o (IF Contains(f, Kw.WinterHaven)
            THEN <<DerivedFact(Txt.LegolandFlorida, "location", Txt.WinterHavenFlorida,
                               Txt.LegolandLocationText, source_doc),
                   DerivedFact(Txt.PeppaPig, "location", Txt.WinterHavenFlorida,
                               Txt.PeppaPigLocationText, source_doc)>>
            ELSE <<>>)

SentenceEnders == {".", "!", "?"}

\* the runs at which a sentence starts: re.split(r"(?<=[.!?])\s+", text)
SentenceStarts(s) ==
    {1} \cup {i + 1 : i \in {j \in 2..Len(s) : IsBlank(s, j) /\ s[j - 1][1] \in SentenceEnders}}

\* [s.strip() for s in re.split(...) if s.strip()]
Sentences(s) ==
    IF s = <<>> THEN <<>>
    ELSE LET st == SentenceStarts(s)
             last(a) == IF \E b \in st : b > a
                        THEN SetMin({b \in st : b > a}) - 2
                        ELSE Len(s)
         IN  SelectSeq([k \in 1..Cardinality(st) |->
                            Strip(SubSeq(s, NthStart(st, k), last(NthStart(st, k))))],
                       LAMBDA x : x # <<>>)

KEYWORDS == {Kw.Open, Kw.Close, Kw.Hour, Kw.Time, Kw.Located, Kw.Entry}

\* 20 < len(sent) < 120 and any(kw in sent.lower() for kw in [...])
Kept(sent) ==
    /\ MIN_SENTENCE < StrLen(sent)
    /\ StrLen(sent) < MAX_SENTENCE
    /\ \E kw \in KEYWORDS : Contains(LowerAll(Flat(sent)), kw)

\* the generic path, lines 110-123
GenericFacts(t, source_doc) ==
    LET kept == SelectSeq(Sentences(t), Kept)
    IN  [k \in 1..Len(kept) |-> GenericFact(kept[k], source_doc)]

\* extract_atomic_facts(text, source_doc)
extract_atomic_facts(text, source_doc) ==
    IF source_doc \in StructuredSources
    THEN StructuredFacts(NormalizeText(text), source_doc)
    ELSE GenericFacts(NormalizeText(text), source_doc)

\* a sentence of n characters with a keyword: "open", then x's, then "."
LongSentence(n) == Concat(Str(Kw.Open), Concat(Rep("x", n - 5), Rep(".", 1)))

\* the pieces the documents handed to the extractor are made of
Segments ==
    {Page.MagicKingdomHours, Page.MagicKingdomNoHours, Page.MagicKingdomLate, Page.EpcotHours,
     Page.LegolandByLabel, Page.LegolandByPattern, Page.EarlyEntry,
     Sent.OpensAt9, Sent.OpensAt10, Sent.NoKeyword, Sent.Located,
     LongSentence(MAX_SENTENCE - 1), LongSentence(MAX_SENTENCE)}

\* the documents made of at most MaxSegments different pieces, a blank
\* between them
Documents == {Join(ps) : ps \in SeqsUpTo(Segments, MaxSegments)}

\* a call of extract_atomic_facts (07 line 137)
ExtractAtomicFacts(text, source_doc) ==
    /\ LibFree
    /\ call' = [fn |-> "extract_atomic_facts", text |-> text, source_doc |-> source_doc,
                facts |-> extract_atomic_facts(text, source_doc)]
    /\ UNCHANGED <<files, modelPresent, nBuilds, bld, qry, chk, atm>>

\* ------------------------------------------------- the atomic-fact pipeline
\* The scripts 07 (parse), 10 (validate) and 08 (rebuild), each started by
\* hand, and the evaluation test that reads what they wrote. atm.file is
\* data/core_atomic/core_atomic_facts.jsonl; atm.validated records that 10 ran
\* to its end over the file as it now is, atm.exit what it returned and
\* atm.report what it printed.
NoAtomic == [file |-> NoFile, validated |-> FALSE, exit |-> "none", report |-> {}]

TOP_K_RETRIEVAL == 3

SAMPLE_SIZE == 10

\* the processed documents of FACTUAL_DOCS that are not the park-hours table;
\* the second is "it is located near the lake!"
GuideDocs ==
    << [content |-> Join(<<Sent.OpensAt10, Sent.Located>>), file_name |-> "doc.pdf"],
       [content |-> Str(LowerAll(Flat(Sent.Located))), file_name |-> "guide.pdf"] >>

\* what the processed park-hours table (the last of FACTUAL_DOCS) may hold:
\* two parks with their hours, or "EPCOT: 9 a.m."
HoursContents ==
    {Join(<<Page.MagicKingdomHours, Page.EpcotHours>>),
     Concat(Str(Pat.EPCOT), Str(<<"9", " ", "a", ".", "m", ".">>))}

HoursDoc(content) == [content |-> content, file_name |-> "Orlando_Park_Hours_Dez2025.pdf"]

\* the documents of data/processed, in the order of FACTUAL_DOCS
ProcessedDocs ==
    {SelectSeq(GuideDocs, LAMBDA d : d.file_name \in present) \o hours :
        present \in SUBSET {"doc.pdf", "guide.pdf"},
        hours \in {<<>>} \cup {<<HoursDoc(c)>> : c \in HoursContents}}

\* no script of the pipeline is running
PipelineIdle == bld.pc \in {"idle", "done", "failed"}

\* 07 process_core_atomic, lines 127-147: the facts of every processed
\* document, in order, written to the atomic-fact file
ProcessCoreAtomic(docs) ==
    /\ PipelineIdle
    /\ LibFree
    /\ atm' = [file |-> Written(0, Flatten([d \in 1..Len(docs) |->
                            extract_atomic_facts(docs[d].content, docs[d].file_name)])),
               validated |-> FALSE, exit |-> "none", report |-> {}]
    /\ UNCHANGED <<files, modelPresent, nBuilds, bld, qry, chk, call>>

\* json.loads of a line json.dumps wrote: the six fields as JSON strings (a
\* one-character string stands for each of the fixed labels)
JsonOf(fact) ==
    [f \in DOMAIN fact |->
        IF f \in {"entity", "value", "text"} THEN JsonStr(fact[f]) ELSE JsonStr(Rep("n", 1))]

\* 10 main, lines 41-63: 1 if the file is missing; else validate_chunk over
\* every line, every error printed, 1 if there is any and 0 if none. An
\* exception of validate_chunk ends the script before anything is printed.
ValidateAtomicCore ==
    /\ PipelineIdle
    /\ LibFree
    /\ IF atm.file.state # "ok"
       THEN atm' = [atm EXCEPT !.exit = "1", !.report = {}]
       ELSE LET chunks == atm.file.recs
                results == [i \in 1..Len(chunks) |-> validate_chunk(JsonOf(chunks[i]), i)]
                all_errors == UNION {results[i].errors : i \in 1..Len(chunks)}
            IN  IF \E i \in 1..Len(chunks) : results[i].raised # "none"
                THEN atm' = [atm EXCEPT !.exit = "raised", !.report = {}]
                ELSE atm' = [atm EXCEPT !.validated = TRUE, !.report = all_errors,
                                        !.exit = IF all_errors = {} THEN "0" ELSE "1"]
    /\ UNCHANGED <<files, modelPresent, nBuilds, bld, qry, chk, call>>

\* 08 load_atomic_facts and rebuild_atomic_core, lines 17-29: the facts are
\* read from the atomic-fact file (open raises if it is missing, and nothing
\* is written); neither the validator nor its report is consulted
RebuildFromAtomicFile ==
    /\ atm.file.state = "ok"
    /\ LibFree
    /\ RebuildAtomicCoreStart(atm.file.recs)

\* a query made of the entity of the fact
TestQueryVectorOfEntity(fact) == Embed(fact.entity)

\* test_core_facts lines 79-83: the query is the text of the fact
TestQueryVector(fact) == Embed(fact.text)

\* extract_entity_value, lines 19-26: re.search(re.escape(entity), text,
\* re.IGNORECASE)
extract_entity_value(retrieved_text, expected_entity) ==
    Contains(LowerAll(Flat(retrieved_text)), LowerAll(Flat(expected_entity)))

\* one round of the loop of test_core_facts_retrieval, lines 78-106
TestRound(fact, vecs, meta) ==
    LET qv == TestQueryVector(fact)
        ids == SearchIds(vecs, qv, TOP_K_RETRIEVAL)
        raised == LoopOutcome(meta, Hits(ids), {})
        retrieved_texts == IF raised = "ok" THEN FusionResults(meta, ids) ELSE <<>>
    IN  [entity |-> fact.entity, query |-> fact.text, ids |-> ids,
         distances |-> [r \in 1..TOP_K_RETRIEVAL |->
                            IF ids[r] = -1 THEN -1 ELSE L2(vecs[ids[r] + 1], qv)],
         raised |-> raised, retrieved_texts |-> retrieved_texts,
         found_entity |-> \E j \in 1..Len(retrieved_texts) :
                            extract_entity_value(retrieved_texts[j], fact.entity)]

\* the fixtures, lines 28-64: the index, the metadata, the model and the
\* golden dataset must all load
FixturesLoad ==
    /\ files["core"].index.state = "ok"
    /\ files["core"].meta.state = "ok"
    /\ modelPresent
    /\ atm.file.state = "ok"

\* test_core_facts_retrieval, lines 66-122: the first ten facts of the golden
\* dataset are looked up by their own text
test_core_facts_retrieval ==
    IF ~FixturesLoad THEN [outcome |-> "fixture failed", rounds |-> <<>>]
    ELSE LET facts == atm.file.recs
             test_sample == SubSeq(facts, 1, Min(SAMPLE_SIZE, Len(facts)))
             rounds == [i \in 1..Len(test_sample) |->
                            TestRound(test_sample[i], files["core"].index.recs,
                                      files["core"].meta.recs)]
             passed_count == Cardinality({i \in 1..Len(rounds) : rounds[i].found_entity})
         IN  IF \E i \in 1..Len(rounds) : rounds[i].raised # "ok"
             THEN [outcome |-> "IndexError", rounds |-> rounds]
             ELSE IF test_sample = <<>>
             THEN [outcome |-> "ZeroDivisionError", rounds |-> rounds]
             ELSE [outcome |-> IF 2 * passed_count >= Len(test_sample)
                               THEN "passed" ELSE "AssertionError",
                   rounds |-> rounds]

\* a run of the evaluation test; built records which build wrote the index it
\* read, and whether that build took its facts from the golden dataset as it
\* now is
TestCoreFactsRetrieval ==
    /\ PipelineIdle
    /\ LibFree
    /\ call' = [fn |-> "test_core_facts_retrieval",
                routine |-> bld.routine,
                complete |-> bld.pc = "done",
                same_facts |-> bld.chunks = atm.file.recs,
                result |-> test_core_facts_retrieval]
    /\ UNCHANGED <<files, modelPresent, nBuilds, bld, qry, chk, atm>>

\* ----------------------------------------------------------- specification
Init ==
    /\ files = [l \in Layers |-> [meta |-> NoFile, index |-> NoFile]]
    /\ modelPresent \in BOOLEAN
    /\ nBuilds = 0
    /\ bld = IdleBuilder
    /\ qry = IdleQuery
    /\ chk = NoChunking
    /\ atm = NoAtomic
    /\ call = NoCall

\* the build scripts, run one at a time
NextBuild ==
    \/ \E docs \in SeqsUpTo(DocPool, MaxDocs) : RebuildCoreIndexStart(docs)
    \/ \E facts \in SeqsUpTo(FactPool, MaxDocs) : RebuildAtomicCoreStart(facts)
    \/ \E docs \in SeqsUpTo(DocPool, MaxDocs), l \in AuxLayers :
            EmbedAndSaveLayerStart(docs, l)
    \/ \E chunks \in SeqsUpTo(TextPool, MaxDocs), l \in AuxLayers :
            SaveLayerStart(chunks, l)
    \/ BuildOpenMeta
    \/ BuildWriteMeta
    \/ BuildOpenIndex
    \/ BuildWriteIndex

\* the builds, and beside them the 03 CLI, the 05 CLI or the API server
Next ==
    \/ NextBuild
    \/ \E e \in {"cli03", "layers05", "api"}, l \in LayerNames : QueryStart(e, l)
    \/ QueryReadIndex
    \/ QueryReadMeta
    \/ \E q \in TextPool, k \in 1..MaxTopK : QueryRetrieve(q, k)
    \/ \E q \in TextPool, ok \in BOOLEAN : ApiQuery(q, ok)
    \/ QueryExit

Spec == Init /\ [][Next]_vars

\* the builds, and beside them the 11 CLI
NextAnswer ==
    \/ NextBuild
    \/ \E q \in TextPool, l \in LayerNames, k \in 1..MaxTopK, ok \in BOOLEAN :
            AnswerWithLlm(q, l, k, ok)
    \/ QueryExit

SpecAnswer == Init /\ [][NextAnswer]_vars

\* calls of the chunker
NextChunk ==
    \E n \in 0..MaxWords, wide \in BOOLEAN, cs \in 1..MaxChunkSize :
        \E ov \in 0..(cs - 1) : Split(TextOfWords(1, n, wide), cs, ov)

SpecChunk == Init /\ [][NextChunk]_vars

\* calls of the grounding scorer and of its tokenizer
NextGround ==
    \/ \E q \in QueryTexts, ctx \in SeqsUpTo(ContextTexts, MaxContexts),
          r \in GroundTexts : CheckGrounding(q, ctx, r)
    \/ \E t \in GroundTexts : Tokenize(t)

SpecGround == Init /\ [][NextGround]_vars

\* calls of the validator, on records with any subset of the fields
NextValidate ==
    \E e \in FieldValues("entity"), a \in FieldValues("attribute"),
       v \in FieldValues("value"), d \in FieldValues("source_document"),
       y \in FieldValues("year_or_season"), t \in FieldValues("text") :
        ValidateChunk(Chunk([entity |-> e, attribute |-> a, value |-> v,
                             source_document |-> d, year_or_season |-> y, text |-> t]), 1)

SpecValidate == Init /\ [][NextValidate]_vars

\* calls of the extractor
NextExtract ==
    \E text \in Documents, source_doc \in Sources : ExtractAtomicFacts(text, source_doc)

SpecExtract == Init /\ [][NextExtract]_vars

\* the atomic-fact pipeline: parse, validate and rebuild in any order, one at
\* a time, and at the end the evaluation test
NextAtomic ==
    \/ \E docs \in ProcessedDocs : ProcessCoreAtomic(docs)
    \/ ValidateAtomicCore
    \/ RebuildFromAtomicFile
    \/ BuildOpenMeta
    \/ BuildWriteMeta
    \/ BuildOpenIndex
    \/ BuildWriteIndex
    \/ TestCoreFactsRetrieval

SpecAtomic == Init /\ [][NextAtomic]_vars

\* ------------------------------------------------------------- properties
\* record i of the metadata file holds the text whose embedding is vector i
\* of the index file, and both files exist
Aligned(pair) ==
    /\ pair.meta.state = "ok"
    /\ pair.index.state = "ok"
    /\ Len(pair.meta.recs) = Len(pair.index.recs)
    /\ \A i \in 1..Len(pair.meta.recs) : pair.index.recs[i] = Embed(pair.meta.recs[i].text)

\* the program holds an index and a metadata list it loaded without error
HoldsLoadedPair(qr) ==
    \/ qr.entry \in {"cli03", "layers05"} /\ qr.pc = "loaded"
    \/ qr.entry = "api" /\ qr.pc = "serving" /\ qr.engine

\* a retrieve call of 03, 05 or the engine has run on a loaded pair
RetrieveCalled(qr) ==
    \/ qr.entry \in {"cli03", "layers05"} /\ qr.pc = "done" /\ qr.retrieved
    \/ qr.entry = "api" /\ qr.retrieved

RetrieveRaised(qr) == qr.outcome \in {"IndexError", "KeyError", "HTTP500_retrieval"}

\* the two files of a layer were both written, whole, by one build run
PairOfOneBuild(pair) ==
    /\ pair.meta.state = "ok"
    /\ pair.index.state = "ok"
    /\ pair.meta.build = pair.index.build

\* C1: when a build routine has completed, the layer it built has a metadata
\* file and an index file of that run, and every layer whose two files are
\* those of one run has as many records as vectors, record i holding the text
\* whose embedding is vector i, so that no search over its index returns an
\* id at or beyond the record count.
C1_CompletedBuildAligned ==
    bld.pc = "done" =>
        /\ PairOfOneBuild(files[bld.layer])
        /\ files[bld.layer].meta.build = bld.build
        /\ \A l \in Layers :
             PairOfOneBuild(files[l]) =>
                /\ Aligned(files[l])
                /\ \A q \in TextPool, k \in 1..MaxTopK :
                     \A r \in 1..k :
                        SearchIds(files[l].index.recs, Embed(q), k)[r]
                            < Len(files[l].meta.recs)

\* a second build of the core layer from atomic facts has completed with two facts
C1_Witness ==
    /\ bld.pc = "done"
    /\ bld.routine = "rebuild_atomic_core"
    /\ bld.build = 2
    /\ Len(files["core"].index.recs) >= 2

\* C2: a query that has loaded its resources holds an index and a metadata
\* list written by the same build run.
C2_LoadedPairFromOneBuild ==
    HoldsLoadedPair(qry) => qry.index.build = qry.meta.build

\* C3: after a rebuild run that failed, the layer's metadata file and index
\* file are still the pair of one single build.
C3_FailedRebuildKeepsPair ==
    bld.pc = "failed" => files[bld.layer].meta.build = files[bld.layer].index.build

\* C4: load_index_and_metadata and the construction of ContextFusionEngine
\* succeed only on a pair whose record count equals its vector count.
C4_MismatchFailsAtLoad ==
    (HoldsLoadedPair(qry) /\ qry.entry \in {"layers05", "api"}) =>
        Len(qry.meta.recs) = Len(qry.index.recs)

\* C5: a retrieve call with top_k = k on an index of n vectors does not raise
\* and returns exactly min(k, n) results, none of them for the sentinel id -1.
C5_ReturnsMinTopKN ==
    RetrieveCalled(qry) =>
        /\ ~RetrieveRaised(qry)
        /\ Len(qry.results) = Min(qry.k, Len(qry.index.recs))
        /\ Len(qry.results) <= qry.k
        /\ \A r \in 1..Len(qry.ids) : (qry.ids[r] = -1) <=> (r > Len(qry.results))

\* C6: a retrieve entry point called with a layer name other than core,
\* context or strategy ends with an error and returns no results.
C6_UnknownLayerRejected ==
    (qry.entry \in {"layers05", "answer11"} /\ qry.pc = "done"
        /\ qry.layer \notin {"core", "context", "strategy"}) =>
        /\ qry.outcome \in {"ValueError", "LayerNotFound"}
        /\ qry.results = <<>>
        /\ ~qry.generated

\* C7: a request whose retrieval failed ends with a retrieval error and calls
\* no generation; a request whose generation failed ends with a generation
\* error; no answer is produced from a substitute context.
C7_FailuresSurfaceDistinctly ==
    /\ (qry.fallback \/ RetrieveRaised(qry)) =>
            /\ ~qry.generated
            /\ qry.outcome \in {"IndexError", "KeyError", "HTTP500_retrieval", "RetrievalError"}
    /\ (qry.generated /\ qry.outcome \notin {"ok", "HTTP200"}) =>
            qry.outcome \in {"LLMError", "HTTP500_llm"}

\* the API process after an initialization that raised
InitFailed(qr) == qr.entry = "api" /\ qr.pc = "serving" /\ ~qr.engine

HitText(qr, j) == qr.meta.recs[Hits(qr.ids)[j] + 1].text

\* what a display preview of text t with the given limit must be
IsPreviewOf(p, t, limit) ==
    IF StrLen(t) <= limit THEN p = t
    ELSE /\ StrLen(p) = limit + 3
         /\ Prefix(p, limit) = Prefix(t, limit)
         /\ p # t
         /\ p[Len(p)] = <<".", 3>>

\* C9: every context string handed to check_grounding is the whole text of
\* the metadata record it was retrieved from; the 03 and 05 previews are the
\* text itself when it is at most the limit long, and its first limit
\* characters followed by "..." only when it is longer.
C9_GroundingGetsFullText ==
    /\ (qry.entry = "api" /\ qry.outcome = "HTTP200") =>
            /\ Len(qry.grounded) = Len(Hits(qry.ids))
            /\ \A j \in 1..Len(qry.grounded) : qry.grounded[j] = HitText(qry, j)
    /\ (qry.entry = "api" /\ qry.outcome # "HTTP200") => qry.grounded = <<>>
    /\ (qry.entry = "cli03" /\ qry.pc = "done" /\ qry.outcome = "ok") =>
            \A j \in 1..Len(qry.results) :
                IsPreviewOf(qry.results[j].text, HitText(qry, j), PREVIEW_03)
    /\ (qry.entry = "layers05" /\ qry.pc = "done" /\ qry.outcome = "ok") =>
            \A j \in 1..Len(qry.results) :
                IsPreviewOf(qry.results[j].text_preview, HitText(qry, j), PREVIEW_05)

\* check_grounding received a context longer than the preview limit and one
\* exactly at the limit
C9_Witness ==
    /\ qry.entry = "api"
    /\ qry.outcome = "HTTP200"
    /\ \E j \in 1..Len(qry.grounded) : StrLen(qry.grounded[j]) > PREVIEW_03
    /\ \E j \in 1..Len(qry.grounded) : StrLen(qry.grounded[j]) = PREVIEW_03

\* the words of chunk j (1-based) of the last split
ChunkWords(j) == Words(chk.chunks[j])

\* the last split was of a text with more than chunk_size words
SplitOfLongText == chk.chunk_size > 0 /\ Len(Words(chk.text)) > chk.chunk_size

\* C10: for a text of more than chunk_size words and chunk_size > overlap >= 0,
\* every word position lies in some chunk, no chunk has more than chunk_size
\* words, no chunk is empty, and chunk j (0-based) is the run of words that
\* starts at position j * (chunk_size - overlap).
C10_ChunksCoverText ==
    SplitOfLongText =>
        LET words == Words(chk.text)
            step == chk.chunk_size - chk.overlap
            start(j) == (j - 1) * step
        IN  /\ \A j \in 1..Len(chk.chunks) :
                 /\ Len(ChunkWords(j)) >= 1
                 /\ Len(ChunkWords(j)) <= chk.chunk_size
                 /\ start(j) + Len(ChunkWords(j)) <= Len(words)
                 /\ ChunkWords(j) = SubSeq(words, start(j) + 1, start(j) + Len(ChunkWords(j)))
            /\ \A p \in 1..Len(words) :
                 \E j \in 1..Len(chk.chunks) :
                    /\ start(j) < p
                    /\ p <= start(j) + Len(ChunkWords(j))

\* a split with a positive overlap that ends in a partial window
C10_Witness ==
    /\ SplitOfLongText
    /\ chk.overlap > 0
    /\ Len(chk.chunks) >= 3
    /\ Len(ChunkWords(Len(chk.chunks))) < chk.chunk_size

\* the token sets of a check_grounding call: of the joined contexts, of the answer
ContextTokens(c) == _tokenize(Join(c.context_list))

AnswerTokens(c) == _tokenize(c.response)

\* C12: check_grounding never raises, and returns 0.0 when the context list
\* is empty, when the answer is the empty string, and when the context token
\* set or the answer token set is empty.
C12_EmptyInputsScoreZero ==
    call.fn = "check_grounding" =>
        /\ call.result.raised = "none"
        /\ (\/ call.context_list = <<>>
            \/ call.response = <<>>
            \/ ContextTokens(call) = {}
            \/ AnswerTokens(call) = {}) => call.result.score = 0

\* a call with a context and an answer that are not empty and have no token
C12_Witness ==
    /\ call.fn = "check_grounding"
    /\ call.context_list # <<>>
    /\ call.response # <<>>
    /\ ContextTokens(call) \cup AnswerTokens(call) = {}
    /\ call.result.score = 0

\* C13: the result of check_grounding lies in [0, 1], is |C /\ A| / |C \/ A|
\* rounded to 4 decimals for the token set C of the joined contexts and the
\* token set A of the answer (0.0 when both are empty), is 0.0 when C and A
\* are disjoint, and is the same for every query argument.
C13_ScoreIsJaccard ==
    call.fn = "check_grounding" =>
        LET C == ContextTokens(call)
            A == AnswerTokens(call)
        IN  /\ call.result.score \in 0..10000
            /\ call.result.score =
                 IF C \cup A = {} THEN 0
                 ELSE Round4(Cardinality(C \cap A), Cardinality(C \cup A))
            /\ (C \cap A = {}) => call.result.score = 0
            /\ \A q \in QueryTexts :
                 check_grounding(q, call.context_list, call.response) = call.result

\* a score strictly between 0 and 1 that had to be rounded
C13_Witness ==
    /\ call.fn = "check_grounding"
    /\ call.result.score \notin {0, 10000}
    /\ call.result.score * Cardinality(ContextTokens(call) \cup AnswerTokens(call))
         # 10000 * Cardinality(ContextTokens(call) \cap AnswerTokens(call))

\* the answer repeats the single retrieved context
SelfGrounding(c) ==
    /\ c.fn = "check_grounding"
    /\ Len(c.context_list) = 1
    /\ c.context_list[1] = c.response

\* C14 (as amended): for every text t with at least one token,
\* check_grounding(q, [t], t) is 1.0.
C14_SelfGroundingOfTokens ==
    (SelfGrounding(call) /\ AnswerTokens(call) # {}) => call.result.score = 10000

\* an answer with a token that repeats its context scored 1.0
C14_Witness ==
    /\ SelfGrounding(call)
    /\ AnswerTokens(call) # {}
    /\ call.result.score = 10000

\* C14 (as claimed): for every non-empty text t, check_grounding(q, [t], t)
\* is 1.0.
C14_SelfGroundingOfAnyText ==
    (SelfGrounding(call) /\ call.response # <<>>) => call.result.score = 10000

\* the characters f with the separator of the time pattern m = <<start,
\* length>> written the other way
Respell(f, m) ==
    LET sep == m[1] + m[2] - 3
    IN  [f EXCEPT ![sep] = IF Lower(f[sep]) = "h" THEN ":" ELSE "h"]

\* C15: writing one of the time-of-day patterns of a text with "h" instead of
\* ":" (or the reverse) leaves the token set of _tokenize unchanged.
C15_SeparatorInsensitive ==
    call.fn = "_tokenize" =>
        LET f == Flat(call.text)
            found == FindTimes(LowerAll(f), 1)
        IN  \A k \in 1..Len(found) :
                _tokenize(Str(Respell(f, found[k]))) = call.tokens

\* C16: validate_chunk never raises; for every record it returns a list of
\* violations.
C16_ValidateNeverRaises ==
    call.fn = "validate_chunk" => call.result.raised = "none"

\* field f of the record is a string that is not empty once trimmed
GoodString(chunk, f) ==
    f \in DOMAIN chunk /\ chunk[f].type = "str" /\ Strip(chunk[f].s) # <<>>

\* the record is a well-formed atomic fact
WellFormed(chunk) ==
    /\ REQUIRED_FIELDS \subseteq DOMAIN chunk
    /\ \A f \in {"entity", "attribute", "value", "text"} : GoodString(chunk, f)
    /\ Count(Strip(chunk["text"].s), ".") <= 1
    /\ Count(Strip(chunk["text"].s), "\n") = 0
    /\ Len(Words(Strip(chunk["text"].s))) <= 40

ReturnedNoViolation(c) == c.result.raised = "none" /\ c.result.errors = {}

\* C17: validate_chunk returns an empty violation list exactly for the
\* records that have every required field, with entity, attribute, value and
\* text non-empty strings once trimmed and a trimmed text of at most one
\* period, no newline and at most 40 words; a record without `entity`, a
\* text with two periods and a text of more than 40 words are not passed.
C17_EmptyListIffWellFormed ==
    call.fn = "validate_chunk" =>
        /\ ReturnedNoViolation(call) <=> WellFormed(call.chunk)
        /\ "entity" \notin DOMAIN call.chunk => ~ReturnedNoViolation(call)
        /\ (GoodString(call.chunk, "text") /\ Count(call.chunk["text"].s, ".") >= 2)
              => call.result.errors # {}
        /\ (GoodString(call.chunk, "text") /\ Len(Words(call.chunk["text"].s)) > 40)
              => call.result.errors # {}

\* a fact of exactly 40 words passed with no violation
C17_Witness ==
    /\ call.fn = "validate_chunk"
    /\ ReturnedNoViolation(call)
    /\ Len(Words(call.chunk["text"].s)) = 40

\* a call of the extractor on the structured document, on another document
StructuredCall(c) == c.fn = "extract_atomic_facts" /\ c.source_doc \in StructuredSources

GenericCall(c) == c.fn = "extract_atomic_facts" /\ c.source_doc \notin StructuredSources

\* the characters of the whitespace-normalized text of the call
Normalized(c) == Flat(NormalizeText(c.text))

\* the operating-hours facts of the call that carry the label of rule r
RuleFacts(c, r) ==
    {k \in 1..Len(c.facts) :
        c.facts[k].attribute = "operating_hours" /\ c.facts[k].entity = park_rules[r].park}

\* where pat occurs in f with a character other than a comma after it
FollowedOccurrences(f, pat) ==
    {i \in 1..(Len(f) - Len(pat)) :
        SubSeq(f, i, i + Len(pat) - 1) = pat /\ f[i + Len(pat)] # ","}

\* the maximal comma-free run of f that starts at a
CommaFreeRun(f, a) ==
    LET commas == {j \in a..Len(f) : f[j] = ","}
    IN  SubSeq(f, a, IF commas = {} THEN Len(f) ELSE SetMin(commas) - 1)

\* rule r emits one fact, with the trimmed comma-free run that follows the
\* first occurrence of pat as value, if pat occurs so, and none if not
RuleEmitsOnce(c, r, pat) ==
    LET f == Normalized(c)
        occ == FollowedOccurrences(f, pat)
    IN  IF occ = {} THEN RuleFacts(c, r) = {}
        ELSE /\ Cardinality(RuleFacts(c, r)) = 1
             /\ \A k \in RuleFacts(c, r) :
                    c.facts[k].value = Strip(Str(CommaFreeRun(f, SetMin(occ) + Len(pat))))

\* C19 (as amended): for the structured document and every park rule, if the
\* normalized text contains the rule's pattern prefix (the label and ": ",
\* but "LEGOLAND Florida (Winter Haven): " for the label LEGOLAND Florida)
\* followed by a value, exactly one fact is emitted for the rule, with the
\* rule's label as entity, attribute operating_hours and the trimmed maximal
\* comma-free run after the first such occurrence as value; otherwise none.
C19_RuleFactsByPattern ==
    StructuredCall(call) =>
        \A r \in 1..Len(park_rules) : RuleEmitsOnce(call, r, park_rules[r].pattern)

\* "Magic Kingdom: 9:00 AM - 10:00 PM, " gave the one fact of the claim
C19_Witness ==
    /\ StructuredCall(call)
    /\ call.text = Page.MagicKingdomHours
    /\ Len(call.facts) = 1
    /\ call.facts[1].entity = Txt.MagicKingdom
    /\ call.facts[1].attribute = "operating_hours"
    /\ call.facts[1].value = Txt.Hours9to10

\* C19 (as claimed): the same with "<label>: " as the prefix of every rule.
C19_RuleFactsByLabel ==
    StructuredCall(call) =>
        \A r \in 1..Len(park_rules) :
            RuleEmitsOnce(call, r, Flat(park_rules[r].park) \o <<":", " ">>)

\* the sentence has a length in [20, 120) and contains a keyword
Qualifies(sent) ==
    /\ 20 <= StrLen(sent)
    /\ StrLen(sent) < 120
    /\ \E kw \in KEYWORDS : Contains(LowerAll(Flat(sent)), kw)

\* C20: for a source that is not the structured document, the facts emitted
\* are, in sentence order, one for each sentence whose length is in [20, 120)
\* and whose lowercase form contains a keyword, with entity "unknown" and
\* value and text equal to the sentence.
C20_GenericFactsOfLength20To120 ==
    GenericCall(call) =>
        LET qualifying == SelectSeq(Sentences(NormalizeText(call.text)), Qualifies)
        IN  /\ Len(call.facts) = Len(qualifying)
            /\ \A k \in 1..Len(call.facts) :
                 /\ k <= Len(qualifying)
                 /\ call.facts[k].entity = Txt.Unknown
                 /\ call.facts[k].value = qualifying[k]
                 /\ call.facts[k].text = qualifying[k]

\* the evaluation test ran against a core index that a completed
\* rebuild_atomic_core built from the facts the test looks up
SelfRetrieval ==
    /\ call.fn = "test_core_facts_retrieval"
    /\ call.routine = "rebuild_atomic_core"
    /\ call.complete
    /\ call.same_facts
    /\ call.result.outcome # "fixture failed"

\* no indexed text other than the query has the embedding of the query
Unambiguous(rnd) ==
    \A g \in 1..Len(atm.file.recs) :
        Embed(atm.file.recs[g].text) = Embed(rnd.query) => atm.file.recs[g].text = rnd.query

Indexing ==
    /\ bld.routine = "rebuild_atomic_core"
    /\ bld.chunks # <<>>
    /\ bld.pc \in {"open_meta", "write_meta", "open_index", "write_index"}

\* C18: no atomic fact is embedded and written to the core index by
\* rebuild_atomic_core unless the validator has run over the atomic-fact file
\* first and reported every violation.
C18_ValidatedBeforeIndexed == Indexing => atm.validated

\* what the validator says of fact i of the facts a call of the extractor
\* returned
VerdictOn(facts, i) == validate_chunk(JsonOf(facts[i]), i)

\* C21: validate_chunk reports no violation for any fact that
\* extract_atomic_facts emits, on the structured path and on the generic path.
C21_ExtractedFactsAreValid ==
    call.fn = "extract_atomic_facts" =>
        \A i \in 1..Len(call.facts) :
            /\ VerdictOn(call.facts, i).raised = "none"
            /\ VerdictOn(call.facts, i).errors = {}

\* the characters of f outside the spans found (each span <<start, length>>)
DeleteSpans(f, found) ==
    LET kept == {i \in 1..Len(f) :
                    \A k \in 1..Len(found) :
                        i < found[k][1] \/ i >= found[k][1] + found[k][2]}
        order == SelectSeq([i \in 1..Len(f) |-> i], LAMBDA i : i \in kept)
    IN  [j \in 1..Len(order) |-> f[order[j]]]

\* the words of a text once the matched time spans are deleted and the
\* punctuation dropped
PlainTokensWithoutTimes(text) ==
    LET lower_text == LowerAll(Flat(text))
        residual == StripPunctuation(DeleteSpans(lower_text, FindTimes(lower_text, 1)))
        generic == Words(Str(residual))
    IN  {Flat(generic[k]) : k \in 1..Len(generic)}

\* the tokens _tokenize returned that are not time tokens (a plain token
\* holds no "_", which no input text here contains)
PlainTokens(tokens) == {t \in tokens : \A i \in 1..Len(t) : t[i] # "_"}

\* C22: the plain tokens _tokenize returns are exactly the tokens of the text
\* with the matched time spans deleted, whatever the order of the times.
C22_TimesRemovedFromResidual ==
    call.fn = "_tokenize" => PlainTokens(call.tokens) = PlainTokensWithoutTimes(call.text)

\* the words of chunk j as a set; the words of the texts split here are
\* pairwise different, so a word stands for its position
ChunkWordSet(j) == {ChunkWords(j)[p] : p \in 1..Len(ChunkWords(j))}

\* C23: for a text of more than chunk_size words and chunk_size > overlap >= 0,
\* every chunk after the first contains a word position that no earlier chunk
\* contains.
C23_EveryChunkAddsAWord ==
    SplitOfLongText =>
        \A j \in 2..Len(chk.chunks) :
            \E w \in ChunkWordSet(j) : \A i \in 1..(j - 1) : w \notin ChunkWordSet(i)

\* the ids r of a search answer are in ascending order of the distance of
\* their vectors from qv, ties in index order, and no -1 precedes an id
NearestFirst(vecs, qv, ids) ==
    \A r, t \in 1..Len(ids) :
        (r < t /\ ids[t] # -1) =>
            /\ ids[r] # -1
            /\ \/ L2(vecs[ids[r] + 1], qv) < L2(vecs[ids[t] + 1], qv)
               \/ L2(vecs[ids[r] + 1], qv) = L2(vecs[ids[t] + 1], qv) /\ ids[r] < ids[t]

\* the stored text a preview of 11 was cut from
PreviewedText(preview) == CHOOSE t \in TextPool : Preview11(t, PREVIEW_11) = preview

\* the distance between the query and the record result j of 11 was made from
Distance11(qr, j) == L2(Embed(PreviewedText(qr.results[j].text_preview)), Embed(qr.q))

\* C24: every retrieve entry point returns its results in ascending order of
\* the distance between the query and the stored record, so its answer is
\* never simply the first top_k records of the metadata file.
C24_ResultsNearestFirst ==
    /\ (RetrieveCalled(qry) /\ ~RetrieveRaised(qry)) =>
            NearestFirst(qry.index.recs, Embed(qry.q), qry.ids)
    /\ (qry.entry = "answer11" /\ qry.pc = "done" /\ ~qry.fallback) =>
            \A j \in 1..(Len(qry.results) - 1) : Distance11(qry, j) <= Distance11(qry, j + 1)
====
